---------------------------- MODULE Spec2Model ----------------------------
(***************************************************************************)
(* A model of the vibration-analysis predictor of                          *)
(* docker-ml-app-deploy/src/modules/model_predictor.py: the fault          *)
(* taxonomy, the time- and frequency-domain feature extractors, the        *)
(* model-aware feature selection, the channel assembly of preprocess_data  *)
(* and the predict orchestrator; and of the handler of                     *)
(* DELETE /api/predictions/{prediction_id} of app.py with the table of     *)
(* modules/prediction_db.py.                                               *)
(*                                                                         *)
(* Model identifiers and names are TLA+ strings; substring search, the     *)
(* split on "_", str.lower, str.isdigit and int() are computed character   *)
(* by character.  Sample values are exact rationals; a feature value is    *)
(* s * sqrt(q) for a sign s and a rational q >= 0, NaN, or the value of a  *)
(* library routine (scipy's skew, kurtosis, fft) applied to its argument.  *)
(***************************************************************************)
EXTENDS Integers, Sequences, FiniteSets, TLC

(***************************************************************************)
(* Bounds of the model.                                                    *)
(***************************************************************************)
\* Longest sample sequence (rows of a channel matrix) that is enumerated.
MaxLen == 3
\* Largest number of identifier fragments concatenated into one identifier.
MaxParts == 3
\* Largest column count of a supplied multi-channel matrix is 7 + MaxExtraCols.
MaxExtraCols == 1
\* Number of states of the pseudo-random stream that are told apart.
RngPeriod == 4
\* Largest number of classifiers found in the models directory.
MaxModels == 2
\* Largest id of a row of the predictions table.
MaxId == 4
\* the largest finite float of the model, standing for that of a double (1.8e308)
FloatMax == 10000

(***************************************************************************)
(* Strings (Python str)                                                    *)
(***************************************************************************)
CharAt(s, i) == SubSeq(s, i, i)

UpperCase == "ABCDEFGHIJKLMNOPQRSTUVWXYZ"
LowerCase == "abcdefghijklmnopqrstuvwxyz"

\* str.lower of one (ASCII) character
LowerChar(c) ==
    IF \E i \in 1..Len(UpperCase) : CharAt(UpperCase, i) = c
    THEN CharAt(LowerCase, CHOOSE i \in 1..Len(UpperCase) : CharAt(UpperCase, i) = c)
    ELSE c

RECURSIVE Lower(_)
Lower(s) == IF Len(s) = 0 THEN "" ELSE LowerChar(CharAt(s, 1)) \o Lower(Tail(s))

\* sub in s
Contains(s, sub) ==
    \E i \in 1..(Len(s) - Len(sub) + 1) : SubSeq(s, i, i + Len(sub) - 1) = sub

\* s.split("_"): the tokens between the underscores, empty tokens kept
RECURSIVE SplitFrom(_, _, _)
SplitFrom(s, i, cur) ==
    IF i > Len(s) THEN <<cur>>
    ELSE IF CharAt(s, i) = "_" THEN <<cur>> \o SplitFrom(s, i + 1, "")
    ELSE SplitFrom(s, i + 1, cur \o CharAt(s, i))

Split(s) == SplitFrom(s, 1, "")

DigitChars == {"0", "1", "2", "3", "4", "5", "6", "7", "8", "9"}

DigitValue(c) ==
    CASE c = "0" -> 0 [] c = "1" -> 1 [] c = "2" -> 2 [] c = "3" -> 3
      [] c = "4" -> 4 [] c = "5" -> 5 [] c = "6" -> 6 [] c = "7" -> 7
      [] c = "8" -> 8 [] c = "9" -> 9

\* str.isdigit: at least one character, and every character a digit
IsDigit(s) == Len(s) > 0 /\ \A i \in 1..Len(s) : CharAt(s, i) \in DigitChars

\* int(s) of a string of digits
RECURSIVE IntOfFrom(_, _, _)
IntOfFrom(s, i, acc) ==
    IF i > Len(s) THEN acc
    ELSE IntOfFrom(s, i + 1, 10 * acc + DigitValue(CharAt(s, i)))

IntOf(s) == IntOfFrom(s, 1, 0)

(***************************************************************************)
(* The fault taxonomy                                                      *)
(***************************************************************************)
CLASS_NAMES ==
    (0 :> "normal") @@ (1 :> "horizontal-misalignment")
      @@ (2 :> "vertical-misalignment") @@ (3 :> "imbalance")
      @@ (4 :> "ball_fault") @@ (5 :> "cage_fault") @@ (6 :> "outer_race")

(***************************************************************************)
(* Numbers.  A sample is a rational [n, d] in lowest terms with d > 0.     *)
(***************************************************************************)
AbsInt(a) == IF a < 0 THEN -a ELSE a

RECURSIVE GCD(_, _)
GCD(a, b) == IF b = 0 THEN a ELSE GCD(b, a % b)

\* n / d in lowest terms, d # 0
Q(n, d) ==
    LET g == GCD(AbsInt(n), AbsInt(d))
        sg == IF d < 0 THEN -1 ELSE 1
    IN  [n |-> sg * (n \div g), d |-> sg * (d \div g)]

QInt(a) == [n |-> a, d |-> 1]
QAdd(a, b) == Q(a.n * b.d + b.n * a.d, a.d * b.d)
QSub(a, b) == Q(a.n * b.d - b.n * a.d, a.d * b.d)
QMul(a, b) == Q(a.n * b.n, a.d * b.d)
\* a / b, b # 0
QDiv(a, b) == Q(a.n * b.d, a.d * b.n)
QLess(a, b) == a.n * b.d < b.n * a.d
QAbs(a) == [n |-> AbsInt(a.n), d |-> a.d]
QSign(a) == IF a.n > 0 THEN 1 ELSE IF a.n < 0 THEN -1 ELSE 0

(***************************************************************************)
(* A feature value: the number s * sqrt(q), NaN, or the result of a        *)
(* library routine whose numerics are outside this repository.             *)
(***************************************************************************)
NaN == [k |-> "nan"]
\* +inf, the result of an operation that overflows the float range
Inf == [k |-> "inf", s |-> 1]
Num(s, q) == [k |-> "num", s |-> s, q |-> q]
Lib(f, arg) == [k |-> "lib", f |-> f, arg |-> arg]
IsNaN(v) == v.k = "nan"

\* the rational a as a feature value
NumQ(a) == Num(QSign(a), QMul(a, a))
\* sqrt(a), a >= 0
NumSqrt(a) == Num(QSign(a), a)
\* v > 0 for a number v
NumPos(v) == v.s > 0
\* a / b for numbers a, b with b # 0; inf / finite is inf, finite / inf is 0
NumDiv(a, b) ==
    IF a.k = "inf" THEN (IF b.k = "inf" THEN NaN ELSE Inf)
    ELSE IF b.k = "inf" THEN Num(0, QInt(0))
    ELSE Num(a.s * b.s, QDiv(a.q, b.q))

(***************************************************************************)
(* Sample sequences (1-D numpy arrays)                                     *)
(***************************************************************************)
RECURSIVE SumSeq(_)
SumSeq(sig) == IF Len(sig) = 0 THEN QInt(0) ELSE QAdd(Head(sig), SumSeq(Tail(sig)))

MapSquare(sig) == [i \in 1..Len(sig) |-> QMul(sig[i], sig[i])]
MapAbs(sig) == [i \in 1..Len(sig) |-> QAbs(sig[i])]
\* np.mean of a non-empty sequence
Mean(sig) == QDiv(SumSeq(sig), QInt(Len(sig)))
\* np.max / np.min of a non-empty sequence
MaxOf(sig) == sig[CHOOSE i \in 1..Len(sig) : \A j \in 1..Len(sig) : ~QLess(sig[i], sig[j])]
MinOf(sig) == sig[CHOOSE i \in 1..Len(sig) : \A j \in 1..Len(sig) : ~QLess(sig[j], sig[i])]
\* the squared deviations from the mean
MapSquaredDev(sig) ==
    LET m == Mean(sig)
    IN  [i \in 1..Len(sig) |-> QMul(QSub(sig[i], m), QSub(sig[i], m))]
\* population variance (ddof = 0), as numpy's std computes it
Variance(sig) == Mean(MapSquaredDev(sig))
\* a float operation on the non-negative terms overflows: a term or their sum
\* is beyond the largest finite float
SumOverflows(terms) ==
    \/ \E i \in 1..Len(terms) : QLess(QInt(FloatMax), terms[i])
    \/ QLess(QInt(FloatMax), SumSeq(terms))
\* np.sum(np.diff(np.sign(signal)) != 0)
SignChanges(sig) ==
    Cardinality({i \in 1..(Len(sig) - 1) : QSign(sig[i + 1]) # QSign(sig[i])})

\* An operation either returns a value or raises an exception.
Ok(v) == [ok |-> TRUE, val |-> v]
Raise(msg) == [ok |-> FALSE, err |-> msg]

(***************************************************************************)
(* compute_basic_time_features: the 14 time-domain features, as the list   *)
(* of (name, value) pairs of the returned dict, in insertion order.        *)
(***************************************************************************)
\* crest_factor with 0 in place of NaN for a signal without energy
crest_factor_ZeroDefault(max_val, rms_val) ==
    IF NumPos(rms_val) THEN NumDiv(NumQ(max_val), rms_val) ELSE NumQ(QInt(0))

crest_factor(max_val, rms_val) ==
    IF NumPos(rms_val) THEN NumDiv(NumQ(max_val), rms_val) ELSE NaN

shape_factor(rms_val, mean_abs) ==
    IF NumPos(NumQ(mean_abs)) THEN NumDiv(rms_val, NumQ(mean_abs)) ELSE NaN

impulse_factor(max_val, mean_abs) ==
    IF NumPos(NumQ(mean_abs)) THEN NumDiv(NumQ(max_val), NumQ(mean_abs)) ELSE NaN


\* rms without the square root: the mean of the squares
rms_MeanSquare(sig) == NumQ(Mean(MapSquare(sig)))

\* np.sqrt(np.mean(signal ** 2)); the squares of large samples overflow to inf
rms(sig) ==
    IF SumOverflows(MapSquare(sig)) THEN Inf ELSE NumSqrt(Mean(MapSquare(sig)))

\* signal.std()
std(sig) ==
    IF SumOverflows(MapSquaredDev(sig)) THEN Inf ELSE NumSqrt(Variance(sig))

\* np.sum(signal ** 2)
energy(sig) ==
    IF SumOverflows(MapSquare(sig)) THEN Inf ELSE NumQ(SumSeq(MapSquare(sig)))

zero_crossing_rate(sig) == NumQ(QDiv(QInt(SignChanges(sig)), QInt(Len(sig))))

\* compute_basic_time_features dividing without the guards rms_val > 0 and
\* mean_abs > 0, on Python floats: a zero divisor raises ZeroDivisionError
compute_basic_time_features_Unguarded(sig) ==
    IF Len(sig) = 0
    THEN Raise("zero-size array to reduction operation maximum which has no identity")
    ELSE IF ~NumPos(rms(sig)) \/ ~NumPos(NumQ(Mean(MapAbs(sig))))
    THEN Raise("float division by zero")
    ELSE LET mean_val == Mean(sig)
             std_val == std(sig)
             rms_val == rms(sig)
             max_val == MaxOf(sig)
             min_val == MinOf(sig)
             peak_to_peak == QSub(max_val, min_val)
             mean_abs == Mean(MapAbs(sig))
         IN  Ok(<< <<"mean", NumQ(mean_val)>>,
                   <<"std", std_val>>,
                   <<"rms", rms_val>>,
                   <<"max", NumQ(max_val)>>,
                   <<"min", NumQ(min_val)>>,
                   <<"peak_to_peak", NumQ(peak_to_peak)>>,
                   <<"mean_abs", NumQ(mean_abs)>>,
                   <<"crest_factor", NumDiv(NumQ(max_val), rms_val)>>,
                   <<"shape_factor", NumDiv(rms_val, NumQ(mean_abs))>>,
                   <<"impulse_factor", NumDiv(NumQ(max_val), NumQ(mean_abs))>>,
                   <<"skewness", Lib("skew", sig)>>,
                   <<"kurtosis", Lib("kurtosis", sig)>>,
                   <<"energy", energy(sig)>>,
                   <<"zero_crossing_rate", zero_crossing_rate(sig)>> >>)

compute_basic_time_features(sig) ==
    IF Len(sig) = 0
    THEN \* np.max of an empty array
         Raise("zero-size array to reduction operation maximum which has no identity")
    ELSE LET mean_val == Mean(sig)
             std_val == std(sig)
             rms_val == rms(sig)
             max_val == MaxOf(sig)
             min_val == MinOf(sig)
             peak_to_peak == QSub(max_val, min_val)
             mean_abs == Mean(MapAbs(sig))
         IN  Ok(<< <<"mean", NumQ(mean_val)>>,
                   <<"std", std_val>>,
                   <<"rms", rms_val>>,
                   <<"max", NumQ(max_val)>>,
                   <<"min", NumQ(min_val)>>,
                   <<"peak_to_peak", NumQ(peak_to_peak)>>,
                   <<"mean_abs", NumQ(mean_abs)>>,
                   <<"crest_factor", crest_factor(max_val, rms_val)>>,
                   <<"shape_factor", shape_factor(rms_val, mean_abs)>>,
                   <<"impulse_factor", impulse_factor(max_val, mean_abs)>>,
                   <<"skewness", Lib("skew", sig)>>,
                   <<"kurtosis", Lib("kurtosis", sig)>>,
                   <<"energy", energy(sig)>>,
                   <<"zero_crossing_rate", zero_crossing_rate(sig)>> >>)

\* d[key] of a list of (name, value) pairs
Get(pairs, key) == pairs[CHOOSE i \in 1..Len(pairs) : pairs[i][1] = key][2]
Keys(pairs) == [i \in 1..Len(pairs) |-> pairs[i][1]]

(***************************************************************************)
(* compute_frequency_features.  The retained half spectrum is the first    *)
(* N \div 2 bins of the discrete Fourier transform.  Whether it is all     *)
(* zero is decided exactly (for N <= 5, which covers the bounds); the      *)
(* values of a non-degenerate spectrum are results of the FFT library.     *)
(***************************************************************************)
\* bin k (0-based) of the DFT of sig is zero
BinIsZero(sig, k) ==
    LET N == Len(sig) IN
    CASE k = 0 -> SumSeq(sig).n = 0
      [] k = 1 /\ N = 4 -> sig[1] = sig[3] /\ sig[2] = sig[4]
      [] k = 1 /\ N = 5 -> \A i \in 1..N : sig[i] = sig[1]

\* np.sum(amplitudes) == 0 for the retained bins
HalfSpectrumIsZero(sig) == \A k \in 0..((Len(sig) \div 2) - 1) : BinIsZero(sig, k)

FreqNames ==
    <<"dominant_freq", "dominant_amp", "spectral_energy", "spectral_centroid",
      "spectral_bandwidth", "spectral_flatness">>

\* compute_frequency_features without the test for a degenerate spectrum:
\* np.argmax of the empty half spectrum raises, and an all-zero spectrum gives
\* frequency 0 and amplitude 0 beside the NaN of the divisions by zero
compute_frequency_features_Unguarded(sig, sampling_rate) ==
    IF Len(sig) = 0
    THEN Raise("invalid number of data points (0) specified")
    ELSE IF sampling_rate = 0
    THEN Raise("division by zero")
    ELSE IF Len(sig) \div 2 = 0
    THEN Raise("attempt to get argmax of an empty sequence")
    ELSE IF HalfSpectrumIsZero(sig)
    THEN Ok([i \in 1..Len(FreqNames) |->
               <<FreqNames[i],
                 IF FreqNames[i] \in {"dominant_freq", "dominant_amp", "spectral_energy"}
                 THEN NumQ(QInt(0)) ELSE NaN>>])
    ELSE Ok([i \in 1..Len(FreqNames) |->
               <<FreqNames[i],
                 Lib(FreqNames[i], [signal |-> sig, sampling_rate |-> sampling_rate])>>])

compute_frequency_features(sig, sampling_rate) ==
    IF Len(sig) = 0
    THEN \* scipy.fft.fft of an empty array
         Raise("invalid number of data points (0) specified")
    ELSE IF sampling_rate = 0
    THEN \* 1 / sampling_rate
         Raise("division by zero")
    ELSE IF Len(sig) \div 2 = 0 \/ HalfSpectrumIsZero(sig)
    THEN Ok([i \in 1..Len(FreqNames) |-> <<FreqNames[i], NaN>>])
    ELSE Ok([i \in 1..Len(FreqNames) |->
               <<FreqNames[i],
                 Lib(FreqNames[i], [signal |-> sig, sampling_rate |-> sampling_rate])>>])

(***************************************************************************)
(* Arrays and data frames.  An array is 1-D (cols holds the one sequence)  *)
(* or 2-D (cols holds the columns, each of nrows samples).  A data frame   *)
(* is its row count and its columns, as (name, value) pairs.               *)
(***************************************************************************)
Vec(sig) == [ndim |-> 1, nrows |-> Len(sig), cols |-> <<sig>>]
Mat(n, columns) == [ndim |-> 2, nrows |-> n, cols |-> columns]
\* samples_data.shape[1] of a 2-D array
NCols(a) == Len(a.cols)

\* pd.DataFrame()
EmptyFrame == [rows |-> 0, cols |-> <<>>]
\* pd.DataFrame([all_features])
OneRowFrame(all_features) == [rows |-> 1, cols |-> all_features]

\* FrameIsEmpty as len(df) == 0: a frame of one row and no column counts as filled
FrameIsEmpty_RowsOnly(df) == df.rows = 0

\* DataFrame.empty
FrameIsEmpty(df) == df.rows = 0 \/ Len(df.cols) = 0
\* DataFrame.shape[1]
FrameWidth(df) == Len(df.cols)

\* d[key] = value on a dict kept as a list of pairs in insertion order
DictSet(d, key, value) ==
    IF \E i \in 1..Len(d) : d[i][1] = key
    THEN [i \in 1..Len(d) |-> IF d[i][1] = key THEN <<key, value>> ELSE d[i]]
    ELSE Append(d, <<key, value>>)

\* for feat_name, value in feats.items(): all_features[prefix + feat_name + suffix] = value
RECURSIVE AddFeatures(_, _, _, _, _)
AddFeatures(all_features, feats, prefix, suffix, i) ==
    IF i > Len(feats) THEN all_features
    ELSE AddFeatures(DictSet(all_features, prefix \o feats[i][1] \o suffix, feats[i][2]),
                     feats, prefix, suffix, i + 1)

\* The time and then the frequency features of one signal, added under the suffix.
AddSignalFeatures(all_features, sig, sampling_rate, suffix) ==
    LET time_features == compute_basic_time_features(sig) IN
    IF ~time_features.ok THEN time_features
    ELSE LET freq_features == compute_frequency_features(sig, sampling_rate) IN
         IF ~freq_features.ok THEN freq_features
         ELSE Ok(AddFeatures(AddFeatures(all_features, time_features.val, "time_", suffix, 1),
                             freq_features.val, "freq_", suffix, 1))

column_names ==
    <<"tachometer", "underhang-axial", "underhang-radial", "underhang-tangential",
      "overhang-axial", "overhang-radial", "overhang-tangential">>

Min(a, b) == IF a < b THEN a ELSE b

\* the loop over df.columns of extract_features_from_multi_channel_data
RECURSIVE MultiChannelLoop(_, _, _, _, _)
MultiChannelLoop(all_features, samples_data, sampling_rate, names, i) ==
    IF i > Len(names) THEN Ok(all_features)
    ELSE LET r == AddSignalFeatures(all_features, samples_data.cols[i], sampling_rate,
                                    "_" \o names[i])
         IN  IF ~r.ok THEN r
             ELSE MultiChannelLoop(r.val, samples_data, sampling_rate, names, i + 1)


\* extract_features_from_multi_channel_data padding the missing channels with
\* zeros, as its comment announces, instead of dropping their names
extract_features_from_multi_channel_data_Padded(samples_data, sampling_rate) ==
    IF samples_data.ndim < 2
    THEN Raise("tuple index out of range")
    ELSE LET padded ==
                 Mat(samples_data.nrows,
                     [j \in 1..Len(column_names) |->
                        IF j <= NCols(samples_data) THEN samples_data.cols[j]
                        ELSE [i \in 1..samples_data.nrows |-> QInt(0)]])
             r == MultiChannelLoop(<<>>, padded, sampling_rate, column_names, 1)
         IN  IF r.ok THEN Ok(OneRowFrame(r.val)) ELSE r

extract_features_from_multi_channel_data(samples_data, sampling_rate) ==
    IF samples_data.ndim < 2
    THEN \* samples_data.shape[1]
         Raise("tuple index out of range")
    ELSE LET names == SubSeq(column_names, 1, Min(NCols(samples_data), Len(column_names)))
             r == MultiChannelLoop(<<>>, samples_data, sampling_rate, names, 1)
         IN  IF r.ok THEN Ok(OneRowFrame(r.val)) ELSE r

(***************************************************************************)
(* The pseudo-random source.  np.random.normal draws from numpy's global   *)
(* generator: rng is the position in its stream, every draw of n values    *)
(* advances it by n.  A draw with a standard deviation of 0 is exactly 0;  *)
(* one with a positive standard deviation is the stream's value.           *)
(***************************************************************************)
NoiseAt(p) == QInt(IF p % 2 = 0 THEN (p \div 2) + 1 ELSE -((p \div 2) + 1))

\* np.std(samples) > 0 (numpy's std of an empty array is NaN)
StdIsPositive(sig) == Len(sig) > 0 /\ Variance(sig).n > 0

\* np.random.normal(0, factor * np.std(samples), n), factor > 0
Normal(rng, sigma_positive, n) ==
    [vals |-> [j \in 1..n |->
                 IF sigma_positive THEN NoiseAt((rng + j - 1) % RngPeriod) ELSE QInt(0)],
     rng |-> (rng + n) % RngPeriod]

\* samples + noise, element by element
AddNoise(sig, noise) == [j \in 1..Len(sig) |-> QAdd(sig[j], noise[j])]

(***************************************************************************)
(* extract_3axis_features                                                  *)
(***************************************************************************)
axes == <<"axial", "radial", "tangential">>

\* AxisSignal3 counting the columns from 0: the axial signal of a matrix is
\* its tachometer column
AxisSignal3_FromTachometer(samples_data, i, rng) ==
    IF samples_data.ndim = 1
    THEN LET sig == samples_data.cols[1] IN
         IF axes[i + 1] = "axial"
         THEN [res |-> Ok(sig), rng |-> rng]
         ELSE LET draw == Normal(rng, StdIsPositive(sig), Len(sig))
              IN  [res |-> Ok(AddNoise(sig, draw.vals)), rng |-> draw.rng]
    ELSE LET col_idx == Min(i, NCols(samples_data) - 1) IN
         IF col_idx < 0
         THEN [res |-> Raise("index -1 is out of bounds for axis 1 with size 0"),
               rng |-> rng]
         ELSE [res |-> Ok(samples_data.cols[col_idx + 1]), rng |-> rng]

\* AxisSignal3 perturbing the radial and the tangential signal of a
\* multi-column matrix too, as it does for a 1-D sequence
AxisSignal3_AlwaysNoisy(samples_data, i, rng) ==
    LET col_idx == IF samples_data.ndim = 1 THEN 0
                   ELSE Min(i + 1, NCols(samples_data) - 1)
    IN  IF col_idx < 0
        THEN [res |-> Raise("index -1 is out of bounds for axis 1 with size 0"),
              rng |-> rng]
        ELSE LET sig == samples_data.cols[col_idx + 1] IN
             IF axes[i + 1] = "axial"
             THEN [res |-> Ok(sig), rng |-> rng]
             ELSE LET draw == Normal(rng, StdIsPositive(sig), Len(sig))
                  IN  [res |-> Ok(AddNoise(sig, draw.vals)), rng |-> draw.rng]

\* The signal of axis i (0-based) and the generator after drawing it.
AxisSignal3(samples_data, i, rng) ==
    IF samples_data.ndim = 1
    THEN LET sig == samples_data.cols[1] IN
         IF axes[i + 1] = "axial"
         THEN [res |-> Ok(sig), rng |-> rng]
         ELSE LET draw == Normal(rng, StdIsPositive(sig), Len(sig))
              IN  [res |-> Ok(AddNoise(sig, draw.vals)), rng |-> draw.rng]
    ELSE LET col_idx == Min(i + 1, NCols(samples_data) - 1) IN
         IF col_idx < 0
         THEN [res |-> Raise("index -1 is out of bounds for axis 1 with size 0"),
               rng |-> rng]
         ELSE [res |-> Ok(samples_data.cols[col_idx + 1]), rng |-> rng]

RECURSIVE Axis3Loop(_, _, _, _, _)
Axis3Loop(all_features, samples_data, sampling_rate, i, rng) ==
    IF i >= Len(axes) THEN [res |-> Ok(OneRowFrame(all_features)), rng |-> rng]
    ELSE LET s == AxisSignal3(samples_data, i, rng) IN
         IF ~s.res.ok THEN s
         ELSE LET r == AddSignalFeatures(all_features, s.res.val, sampling_rate,
                                         "_" \o axes[i + 1])
              IN  IF ~r.ok THEN [res |-> r, rng |-> s.rng]
                  ELSE Axis3Loop(r.val, samples_data, sampling_rate, i + 1, s.rng)

extract_3axis_features(samples_data, sampling_rate, rng) ==
    Axis3Loop(<<>>, samples_data, sampling_rate, 0, rng)

(***************************************************************************)
(* extract_single_axis_features                                            *)
(***************************************************************************)
\* AxisColumn counting the axes from 0: the axial model reads the tachometer
AxisColumn_ZeroBased(axis_type) ==
    IF axis_type = "axial" THEN 0 ELSE IF axis_type = "radial" THEN 1 ELSE 2

AxisColumn(axis_type) ==
    IF axis_type = "axial" THEN 1 ELSE IF axis_type = "radial" THEN 2 ELSE 3

\* The one signal the single-axis strategy reads.
SingleAxisSignal(samples_data, axis_type) ==
    IF samples_data.ndim = 1 THEN Ok(samples_data.cols[1])
    ELSE LET col_idx == Min(AxisColumn(axis_type), NCols(samples_data) - 1) IN
         IF col_idx < 0
         THEN Raise("index -1 is out of bounds for axis 1 with size 0")
         ELSE Ok(samples_data.cols[col_idx + 1])

extract_single_axis_features(samples_data, sampling_rate, axis_type) ==
    LET s == SingleAxisSignal(samples_data, axis_type) IN
    IF ~s.ok THEN s
    ELSE LET r == AddSignalFeatures(<<>>, s.val, sampling_rate, "")
         IN  IF r.ok THEN Ok(OneRowFrame(r.val)) ELSE r

(***************************************************************************)
(* extract_features_by_model_type: the strategy an identifier selects      *)
(***************************************************************************)

\* Strategy with the test for "axial" ahead of the test for "3axis"
Strategy_AxialFirst(model_name) ==
    IF Contains(Lower(model_name), "axial") THEN "axial"
    ELSE IF Contains(Lower(model_name), "3axis") THEN "3axis"
    ELSE IF Contains(Lower(model_name), "radial") THEN "radial"
    ELSE IF Contains(Lower(model_name), "tangential") THEN "tangential"
    ELSE "full"

Strategy(model_name) ==
    IF Contains(Lower(model_name), "3axis") THEN "3axis"
    ELSE IF Contains(Lower(model_name), "axial") THEN "axial"
    ELSE IF Contains(Lower(model_name), "radial") THEN "radial"
    ELSE IF Contains(Lower(model_name), "tangential") THEN "tangential"
    ELSE "full"

extract_features_by_model_type(samples_data, model_name, sampling_rate, rng) ==
    LET st == Strategy(model_name) IN
    IF st = "3axis" THEN extract_3axis_features(samples_data, sampling_rate, rng)
    ELSE IF st = "full"
    THEN [res |-> extract_features_from_multi_channel_data(samples_data, sampling_rate),
          rng |-> rng]
    ELSE [res |-> extract_single_axis_features(samples_data, sampling_rate, st),
          rng |-> rng]

(***************************************************************************)
(* preprocess_data.  The data of a request is not a mapping at all, a      *)
(* mapping without the key "samples", or a mapping whose "samples" is a    *)
(* 1-D or a 2-D array.                                                     *)
(***************************************************************************)
NotAMapping == [kind |-> "none"]
NoSamples == [kind |-> "nokey"]
Samples(a) == [kind |-> "samples", arr |-> a]

n_channels == 7

\* samples * 0.1
Tenth(sig) == [j \in 1..Len(sig) |-> QMul(sig[j], Q(1, 10))]

\* Columns first .. n_channels - 1 of the synthetic matrix, each drawn in turn.
RECURSIVE NoisyColumns(_, _, _)
NoisyColumns(sig, i, rng) ==
    IF i >= n_channels THEN [cols |-> <<>>, rng |-> rng]
    ELSE LET draw == Normal(rng, StdIsPositive(sig), Len(sig))
             rest == NoisyColumns(sig, i + 1, draw.rng)
         IN  [cols |-> <<AddNoise(sig, draw.vals)>> \o rest.cols, rng |-> rest.rng]

\* AssembleChannels with the microphone of the training data as an eighth
\* column, a copy of the primary signal
AssembleChannels_Microphone(sig, rng) ==
    LET noisy == NoisyColumns(sig, 1, rng)
    IN  [arr |-> Mat(Len(sig), <<Tenth(sig)>> \o noisy.cols \o <<sig>>), rng |-> noisy.rng]

\* The channel assembly of a 1-D sample sequence: n_channels columns.
AssembleChannels(sig, rng) ==
    LET noisy == NoisyColumns(sig, 1, rng)
    IN  [arr |-> Mat(Len(sig), <<Tenth(sig)>> \o noisy.cols), rng |-> noisy.rng]

\* BuildChannels handing a 1-D sample sequence on as it came, without the
\* channel assembly
BuildChannels_PassThrough(data, rng) ==
    IF data.kind = "none"
    THEN [res |-> Raise("argument of type 'NoneType' is not iterable"), rng |-> rng]
    ELSE IF data.kind = "nokey"
    THEN [res |-> Ok(NoSamples), rng |-> rng]
    ELSE [res |-> Ok(data), rng |-> rng]

\* The array preprocess_data hands to the feature selection.
BuildChannels(data, rng) ==
    IF data.kind = "none"
    THEN [res |-> Raise("argument of type 'NoneType' is not iterable"), rng |-> rng]
    ELSE IF data.kind = "nokey"
    THEN [res |-> Ok(NoSamples), rng |-> rng]
    ELSE IF data.arr.ndim = 1
    THEN LET a == AssembleChannels(data.arr.cols[1], rng)
         IN  [res |-> Ok(Samples(a.arr)), rng |-> a.rng]
    ELSE [res |-> Ok(data), rng |-> rng]

\* The outcome of the feature selection on the built channels, before the
\* except clause of preprocess_data.
SelectFeatures(built, model_name, sampling_rate, rng) ==
    IF ~built.ok THEN [res |-> built, rng |-> rng]
    ELSE IF built.val.kind = "nokey" THEN [res |-> Ok(EmptyFrame), rng |-> rng]
    ELSE extract_features_by_model_type(built.val.arr, model_name, sampling_rate, rng)

\* except Exception: return pd.DataFrame()
PreprocessExcept(res) == IF res.ok THEN res.val ELSE EmptyFrame

preprocess_data(data, model_name, sampling_rate, rng) ==
    LET built == BuildChannels(data, rng)
        sel == SelectFeatures(built.res, model_name, sampling_rate, built.rng)
    IN  [df |-> PreprocessExcept(sel.res), rng |-> sel.rng]

(***************************************************************************)
(* Python values a classifier hands back: an int, a float (whole part and  *)
(* first decimal) or a str; a raw value is such a value, wrapped in a      *)
(* numpy scalar (which has .item()) or native.                             *)
(***************************************************************************)
PyInt(i) == [t |-> "int", i |-> i, f |-> 0, s |-> ""]
PyFloat(i, f) == [t |-> "float", i |-> i, f |-> f, s |-> ""]
PyStr(s) == [t |-> "str", i |-> 0, f |-> 0, s |-> s]
NumpyScalar(v) == [np |-> TRUE, val |-> v]
Native(v) == [np |-> FALSE, val |-> v]

\* str(v), as the f-string renders it
Str(v) ==
    IF v.t = "int" THEN ToString(v.i)
    ELSE IF v.t = "float" THEN ToString(v.i) \o "." \o ToString(v.f)
    ELSE v.s

\* prediction.item() if the value has it, else int(prediction) for a string of digits
PredictionNum(prediction) ==
    IF prediction.np THEN prediction.val
    ELSE IF IsDigit(Str(prediction.val)) THEN PyInt(IntOf(Str(prediction.val)))
    ELSE prediction.val

\* key in CLASS_NAMES: an int, or a float equal to one, that is a class code
InClassNames(v) ==
    /\ v.t = "int" \/ (v.t = "float" /\ v.f = 0)
    /\ v.i \in DOMAIN CLASS_NAMES


\* PredictionName with another prefix for the codes outside the taxonomy
PredictionName_ClassPrefix(prediction_num) ==
    IF InClassNames(prediction_num) THEN CLASS_NAMES[prediction_num.i]
    ELSE "class_" \o Str(prediction_num)

\* CLASS_NAMES.get(prediction_num, f"clase_{prediction_num}")
PredictionName(prediction_num) ==
    IF InClassNames(prediction_num) THEN CLASS_NAMES[prediction_num.i]
    ELSE "clase_" \o Str(prediction_num)

\* int(cls_num): truncation of a number, the value of a string of digits
IntConv(v) ==
    IF v.t = "str"
    THEN IF IsDigit(v.s) THEN Ok(IntOf(v.s))
         ELSE Raise("invalid literal for int() with base 10: '" \o v.s \o "'")
    ELSE Ok(v.i)

\* CLASS_NAMES.get(int(cls_num), f"clase_{cls_num}")
ProbaKey(cls_num) ==
    LET c == IntConv(cls_num.val) IN
    IF ~c.ok THEN c
    ELSE IF c.val \in DOMAIN CLASS_NAMES THEN Ok(CLASS_NAMES[c.val])
    ELSE Ok("clase_" \o Str(cls_num.val))

\* CLASS_NAMES.get(i, f"clase_{i}") for a position i
IndexKey(i) == IF i \in DOMAIN CLASS_NAMES THEN CLASS_NAMES[i] ELSE "clase_" \o ToString(i)

PyNone == [none |-> TRUE, items |-> <<>>]
PyDict(items) == [none |-> FALSE, items |-> items]

\* the loop over zip(model.classes_, probabilities)
RECURSIVE ZipClasses(_, _, _, _)
ZipClasses(prob_dict, classes, probabilities, j) ==
    IF j > Min(Len(classes), Len(probabilities)) THEN Ok(PyDict(prob_dict))
    ELSE LET key == ProbaKey(classes[j]) IN
         IF ~key.ok THEN key
         ELSE ZipClasses(DictSet(prob_dict, key.val, probabilities[j]),
                         classes, probabilities, j + 1)

\* the dict comprehension over enumerate(probabilities)
RECURSIVE EnumerateProba(_, _, _)
EnumerateProba(prob_dict, probabilities, j) ==
    IF j > Len(probabilities) THEN PyDict(prob_dict)
    ELSE EnumerateProba(DictSet(prob_dict, IndexKey(j - 1), probabilities[j]),
                        probabilities, j + 1)

\* prob_dict of a model with predict_proba, from the vector it returned
ProbDict(model, probabilities) ==
    IF model.has_classes THEN ZipClasses(<<>>, model.classes, probabilities, 1)
    ELSE Ok(EnumerateProba(<<>>, probabilities, 1))

(***************************************************************************)
(* The sampling rate predict infers from the model identifier              *)
(***************************************************************************)
DefaultSamplingRate == 25000

\* for part in parts: if part.isdigit(): sampling_rate = int(part); break
RECURSIVE FirstDigitPart(_, _, _)
FirstDigitPart(parts, i, default) ==
    IF i > Len(parts) THEN default
    ELSE IF IsDigit(parts[i]) THEN IntOf(parts[i])
    ELSE FirstDigitPart(parts, i + 1, default)

InferSamplingRate(model_name) ==
    IF Contains(model_name, "_")
    THEN FirstDigitPart(Split(model_name), 1, DefaultSamplingRate)
    ELSE DefaultSamplingRate

(***************************************************************************)
(* State                                                                   *)
(***************************************************************************)
VARIABLES
    models,         \* self.models: the loaded classifiers, in insertion order
    rng,            \* position of numpy's global random generator
    pc,             \* where the current predict call stands
    requested,      \* argument model_name of the call, as the caller gave it
    data,           \* argument data of the call
    model_name,     \* model_name of the call, as predict rebinds it
    sampling_rate,  \* local sampling_rate
    built,          \* outcome of the channel assembly of preprocess_data
    features_df,    \* local features_df
    prediction_num, \* local prediction_num
    calls,          \* methods of the classifier invoked by the call, in order
    probabilities,  \* local probabilities: the vector predict_proba returned
    result,         \* what the call returned
    rng0,           \* history: position of the generator when the call began
    other,          \* where a second, concurrent predict call stands
    arg,            \* argument of a function applied on its own
    out,            \* its result
    predictions,    \* the rows of the table predictions of the sqlite database
    sqlite_sequence,\* the largest id AUTOINCREMENT has given to a row of the table
    now             \* the wall clock, datetime.now(), in days

vars == <<models, rng, pc, requested, data, model_name, sampling_rate, built, features_df,
          prediction_num, probabilities, calls, result, rng0, other, arg, out,
          predictions, sqlite_sequence, now>>

store == <<predictions, sqlite_sequence, now>>

\* the database as init_database leaves a new file: the table without rows
EmptyStore ==
    /\ predictions = {}
    /\ sqlite_sequence = 0
    /\ now = 0

locals == <<model_name, sampling_rate, built, features_df, prediction_num, probabilities>>

(***************************************************************************)
(* Inputs: the classifiers a models directory may hold, the requests.      *)
(* A classifier is opaque: it has predict_proba or not, classes_ or not,   *)
(* and its predict returns one of its labels or raises.                    *)
(***************************************************************************)
\* a forest trained on the class codes 0, 3 and 9
Forest ==
    [has_proba |-> TRUE, has_classes |-> TRUE,
     classes |-> <<NumpyScalar(PyInt(0)), NumpyScalar(PyInt(3)), NumpyScalar(PyInt(9))>>,
     labels |-> {NumpyScalar(PyInt(0)), NumpyScalar(PyInt(3)), NumpyScalar(PyInt(9))}]
\* a margin classifier: classes_ but no predict_proba
Margin ==
    [has_proba |-> FALSE, has_classes |-> TRUE,
     classes |-> <<NumpyScalar(PyInt(1)), NumpyScalar(PyInt(6))>>,
     labels |-> {NumpyScalar(PyInt(1)), NumpyScalar(PyInt(6)), Native(PyInt(7))}]
\* a hand-written estimator: predict_proba but no classes_, native labels
Plain ==
    [has_proba |-> TRUE, has_classes |-> FALSE, classes |-> <<>>,
     labels |-> {Native(PyInt(2)), Native(PyStr("4")), NumpyScalar(PyFloat(2, 5))}]
\* a classifier trained on string and float labels
Labelled ==
    [has_proba |-> TRUE, has_classes |-> TRUE,
     classes |-> <<NumpyScalar(PyFloat(5, 0)), NumpyScalar(PyStr("3")),
                   NumpyScalar(PyStr("imbalance"))>>,
     labels |-> {NumpyScalar(PyFloat(5, 0)), NumpyScalar(PyStr("3"))}]

\* a classifier trained on the string labels "03" and "3"
Coded ==
    [has_proba |-> TRUE, has_classes |-> TRUE,
     classes |-> <<NumpyScalar(PyStr("03")), NumpyScalar(PyStr("3"))>>,
     labels |-> {NumpyScalar(PyStr("03")), NumpyScalar(PyStr("3"))}]

ModelCatalog ==
    <<[name |-> "myRF_3axis_50000", clf |-> Forest],
      [name |-> "myRF_axial_50000", clf |-> Labelled],
      [name |-> "svm_RADIAL_0", clf |-> Forest],
      [name |-> "knn", clf |-> Margin],
      [name |-> "tree_Tangential", clf |-> Plain],
      [name |-> "gbm_radial_25000", clf |-> Coded]>>

\* The registries load_models can build: the files found, in glob order.
RECURSIVE Registries(_)
Registries(n) ==
    IF n = 0 THEN {<<>>}
    ELSE Registries(n - 1) \cup
         {Append(r, ModelCatalog[i]) :
            r \in {q \in Registries(n - 1) : Len(q) = n - 1},
            i \in 1..Len(ModelCatalog)}

HasName(registry, name) == \E i \in 1..Len(registry) : registry[i].name = name
DistinctNames(registry) ==
    \A i, j \in 1..Len(registry) : registry[i].name = registry[j].name => i = j

\* the probability vectors predict_proba may return
ProbaVectors == {<<Q(1, 4), Q(3, 4)>>, <<Q(1, 2), Q(1, 4), Q(1, 4)>>}

RequestedNames ==
    {ModelCatalog[i].name : i \in 1..Len(ModelCatalog)} \cup {"lost_Tangential_100"}

SeqQ(ints) == [i \in 1..Len(ints) |-> QInt(ints[i])]
RampAt(i) == IF i % 3 = 1 THEN i ELSE IF i % 3 = 2 THEN -i ELSE 0
\* the sample sequence 1, -2, 0, 4, ... of n samples, each raised by shift
Ramp(n, shift) == [i \in 1..n |-> QInt(RampAt(i) + shift)]
Constant(c, n) == [i \in 1..n |-> QInt(c)]

CallSignals ==
    UNION {{Ramp(n, 0), Constant(0, n), Constant(-2, n)} : n \in 0..MaxLen}
\* a matrix of n rows and k columns, column j the ramp raised by j
RampMatrix(n, k) == Mat(n, [j \in 1..k |-> Ramp(n, j - 1)])
CallMatrices ==
    {RampMatrix(MaxLen, k) : k \in 0..(n_channels + MaxExtraCols)}
      \cup {RampMatrix(0, n_channels), Mat(2, [j \in 1..n_channels |-> Constant(0, 2)])}

DataValues ==
    {NotAMapping, NoSamples} \cup {Samples(Vec(sig)) : sig \in CallSignals}
      \cup {Samples(m) : m \in CallMatrices}

(***************************************************************************)
(* predict, step by step                                                   *)
(***************************************************************************)
NoResult == [pending |-> TRUE]
NoValue == PyStr("")
NotBuilt == Raise("")

\* self.models[model_name]
ModelOf(registry, name) ==
    registry[CHOOSE i \in 1..Len(registry) : registry[i].name = name].clf


\* PredictExcept without the except clause: the exception leaves predict
PredictExcept_Propagates(e) == [pc |-> "raised", result |-> [pending |-> TRUE]]

\* except Exception as e: return {"error": str(e)}
PredictExcept(e) == [pc |-> "failed", result |-> [error |-> e]]

\* return {"error": ...} from inside the try block
ReturnError(msg) == [pc |-> "failed", result |-> [error |-> msg]]

\* The call predict(data, model_name) begins.
Predict(d, name) ==
    /\ pc = "idle"
    /\ pc' = "resolve-model"
    /\ data' = d
    /\ requested' = name
    /\ model_name' = name
    /\ calls' = <<>>
    /\ result' = NoResult
    /\ rng0' = rng
    /\ UNCHANGED store
    /\ UNCHANGED <<models, other, rng, sampling_rate, built, features_df, prediction_num,
                   probabilities, arg, out>>



\* ResolvedName substituting the last loaded model instead of the first
ResolvedName_Last(registry, name) ==
    IF HasName(registry, name) THEN Ok(name)
    ELSE IF Len(registry) > 0 THEN Ok(registry[Len(registry)].name)
    ELSE Raise("No models available")

\* ResolvedName without the branch for an empty registry: self.models[model_name]
\* raises KeyError, which the except clause reports
ResolvedName_NoEmptyBranch(registry, name) ==
    IF HasName(registry, name) THEN Ok(name)
    ELSE IF Len(registry) > 0 THEN Ok(registry[1].name)
    ELSE Raise("'" \o name \o "'")

\* if model_name not in self.models: the first loaded model, or an error
ResolvedName(registry, name) ==
    IF HasName(registry, name) THEN Ok(name)
    ELSE IF Len(registry) > 0 THEN Ok(registry[1].name)
    ELSE Raise("No models available")

\* ResolveModel remembering a substitution: the first loaded model is also
\* registered under the identifier that was asked for
ResolveModel_RegistersAlias ==
    /\ pc = "resolve-model"
    /\ \E r \in {ResolvedName(models, model_name)} :
          IF r.ok
          THEN /\ model_name' = r.val
               /\ pc' = "infer-sampling-rate"
               /\ models' = IF r.val = model_name THEN models
                            ELSE Append(models, [name |-> model_name,
                                                 clf |-> ModelOf(models, r.val)])
               /\ UNCHANGED result
          ELSE /\ pc' = ReturnError(r.err).pc
               /\ result' = ReturnError(r.err).result
               /\ UNCHANGED <<model_name, models>>
    /\ UNCHANGED store
    /\ UNCHANGED <<rng0, other, rng, requested, data, sampling_rate, built, features_df,
                   prediction_num, probabilities, calls, arg, out>>

ResolveModel ==
    /\ pc = "resolve-model"
    /\ \E r \in {ResolvedName(models, model_name)} :
          IF r.ok
          THEN /\ model_name' = r.val
               /\ pc' = "infer-sampling-rate"
               /\ UNCHANGED result
          ELSE /\ pc' = ReturnError(r.err).pc
               /\ result' = ReturnError(r.err).result
               /\ UNCHANGED model_name
    /\ UNCHANGED store
    /\ UNCHANGED <<models, rng0, other, rng, requested, data, sampling_rate, built,
                   features_df, prediction_num, probabilities, calls, arg, out>>

InferRate ==
    /\ pc = "infer-sampling-rate"
    /\ sampling_rate' = InferSamplingRate(model_name)
    /\ pc' = "build-channels"
    /\ UNCHANGED store
    /\ UNCHANGED <<models, rng0, other, rng, requested, data, model_name, built, features_df,
                   prediction_num, probabilities, calls, result, arg, out>>

\* preprocess_data, up to the call of extract_features_by_model_type
Build ==
    /\ pc = "build-channels"
    /\ \E b \in {BuildChannels(data, rng)} :
          /\ built' = b.res
          /\ rng' = b.rng
    /\ pc' = "select-features"
    /\ UNCHANGED store
    /\ UNCHANGED <<models, rng0, other, requested, data, model_name, sampling_rate,
                   features_df, prediction_num, probabilities, calls, result, arg, out>>

\* the rest of preprocess_data, and the test of features_df.empty
Select ==
    /\ pc = "select-features"
    /\ \E sel \in {SelectFeatures(built, model_name, sampling_rate, rng)} :
          /\ features_df' = PreprocessExcept(sel.res)
          /\ rng' = sel.rng
          /\ IF FrameIsEmpty(PreprocessExcept(sel.res))
             THEN /\ pc' = ReturnError("No features extracted").pc
                  /\ result' = ReturnError("No features extracted").result
             ELSE /\ pc' = "classify"
                  /\ UNCHANGED result
    /\ UNCHANGED store
    /\ UNCHANGED <<models, rng0, other, requested, data, model_name, sampling_rate, built,
                   prediction_num, probabilities, calls, arg, out>>

\* model.predict(features_df)[0] returned the raw value prediction
ClassifyReturns ==
    /\ pc = "classify"
    /\ \E prediction \in ModelOf(models, model_name).labels :
          prediction_num' = PredictionNum(prediction)
    /\ calls' = Append(calls, "predict")
    /\ pc' = "probabilities"
    /\ UNCHANGED store
    /\ UNCHANGED <<models, rng0, other, probabilities, rng, requested, data, model_name, sampling_rate, built,
                   features_df, result, arg, out>>

\* ClassifyRaises trying again: a failed model.predict is repeated
ClassifyRaises_Retries ==
    /\ pc = "classify"
    /\ calls' = Append(calls, "predict")
    /\ pc' = "classify"
    /\ UNCHANGED store
    /\ UNCHANGED <<models, rng0, other, rng, requested, data, model_name, sampling_rate, built,
                   features_df, prediction_num, probabilities, result, arg, out>>

\* model.predict(features_df) raised
ClassifyRaises ==
    /\ pc = "classify"
    /\ calls' = Append(calls, "predict")
    /\ pc' = PredictExcept("predict failed").pc
    /\ result' = PredictExcept("predict failed").result
    /\ UNCHANGED store
    /\ UNCHANGED <<models, rng0, other, rng, requested, data, model_name, sampling_rate, built,
                   features_df, prediction_num, probabilities, arg, out>>

\* the record predict returns on success
PredictionResult(prob_dict) ==
    [prediction |-> PredictionName(prediction_num),
     prediction_class |-> prediction_num,
     probabilities |-> prob_dict,
     model_used |-> model_name,
     features_count |-> FrameWidth(features_df),
     sampling_rate |-> sampling_rate]

\* the model has no predict_proba: probabilities stay None
NoProbabilities ==
    /\ pc = "probabilities"
    /\ ~ModelOf(models, model_name).has_proba
    /\ pc' = "done"
    /\ result' = PredictionResult(PyNone)
    /\ UNCHANGED store
    /\ UNCHANGED <<models, rng0, other, rng, requested, data, model_name, sampling_rate, built,
                   features_df, prediction_num, probabilities, calls, arg, out>>

\* model.predict_proba(features_df)[0] returned the vector proba_result
ProbabilitiesReturn ==
    /\ pc = "probabilities"
    /\ ModelOf(models, model_name).has_proba
    /\ calls' = Append(calls, "predict_proba")
    /\ \E proba_result \in ProbaVectors :
       \E d \in {ProbDict(ModelOf(models, model_name), proba_result)} :
          /\ probabilities' = proba_result
          /\ IF d.ok
             THEN /\ pc' = "done"
                  /\ result' = PredictionResult(d.val)
             ELSE /\ pc' = PredictExcept(d.err).pc
                  /\ result' = PredictExcept(d.err).result
    /\ UNCHANGED store
    /\ UNCHANGED <<models, rng0, other, rng, requested, data, model_name, sampling_rate, built,
                   features_df, prediction_num, arg, out>>

\* ProbabilitiesRaise keeping what predict gave: the prediction is returned
\* without probabilities when predict_proba raises
ProbabilitiesRaise_Partial ==
    /\ pc = "probabilities"
    /\ ModelOf(models, model_name).has_proba
    /\ calls' = Append(calls, "predict_proba")
    /\ pc' = "done"
    /\ result' = PredictionResult(PyNone)
    /\ UNCHANGED store
    /\ UNCHANGED <<models, rng0, other, rng, requested, data, model_name, sampling_rate, built,
                   features_df, prediction_num, probabilities, arg, out>>

\* model.predict_proba(features_df) raised
ProbabilitiesRaise ==
    /\ pc = "probabilities"
    /\ ModelOf(models, model_name).has_proba
    /\ calls' = Append(calls, "predict_proba")
    /\ pc' = PredictExcept("predict_proba failed").pc
    /\ result' = PredictExcept("predict_proba failed").result
    /\ UNCHANGED store
    /\ UNCHANGED <<models, rng0, other, rng, requested, data, model_name, sampling_rate, built,
                   features_df, prediction_num, probabilities, arg, out>>

\* The caller has taken the result; nothing of the call is kept.
Return ==
    /\ pc \in {"done", "failed"}
    /\ pc' = "idle"
    /\ model_name' = ""
    /\ sampling_rate' = DefaultSamplingRate
    /\ built' = NotBuilt
    /\ features_df' = EmptyFrame
    /\ prediction_num' = NoValue
    /\ probabilities' = <<>>
    /\ rng0' = rng
    /\ data' = NoSamples
    /\ requested' = ""
    /\ calls' = <<>>
    /\ result' = NoResult
    /\ UNCHANGED store
    /\ UNCHANGED <<models, rng, other, arg, out>>

Init ==
    /\ models \in {r \in Registries(MaxModels) : DistinctNames(r)}
    /\ rng \in 0..(RngPeriod - 1)
    /\ pc = "idle"
    /\ data = NoSamples
    /\ requested = ""
    /\ model_name = ""
    /\ sampling_rate = DefaultSamplingRate
    /\ built = NotBuilt
    /\ features_df = EmptyFrame
    /\ prediction_num = NoValue
    /\ probabilities = <<>>
    /\ calls = <<>>
    /\ result = NoResult
    /\ rng0 = rng
    /\ other = "idle"
    /\ arg = NoValue
    /\ out = NoValue
    /\ EmptyStore

Next ==
    \/ \E d \in DataValues, name \in RequestedNames : Predict(d, name)
    \/ ResolveModel
    \/ InferRate
    \/ Build
    \/ Select
    \/ ClassifyReturns
    \/ ClassifyRaises
    \/ NoProbabilities
    \/ ProbabilitiesReturn
    \/ ProbabilitiesRaise
    \/ Return

Spec == Init /\ [][Next]_vars

(***************************************************************************)
(* Two predict calls at once.  np.random.normal draws from the generator   *)
(* of the numpy module, which every call in the process shares: SpecConc   *)
(* lets a second call, on a 1-D sample sequence, reach its channel         *)
(* assembly and draw while the first call is under way.  Only the draws of *)
(* the second call are modelled; they are all it does to shared state.     *)
(***************************************************************************)
\* A second predict call enters preprocess_data with a 1-D sample sequence.
OtherPredict ==
    /\ other = "idle"
    /\ other' = "assembling"
    /\ UNCHANGED store
    /\ UNCHANGED <<models, rng, pc, requested, data, model_name, sampling_rate, built,
                   features_df, prediction_num, probabilities, calls, result, rng0, arg, out>>

\* It draws the noise of a column of n samples: np.random.normal(0, sigma, n).
OtherDraws ==
    /\ other = "assembling"
    /\ \E n \in 1..MaxLen : rng' = Normal(rng, TRUE, n).rng
    /\ other' = "idle"
    /\ UNCHANGED store
    /\ UNCHANGED <<models, pc, requested, data, model_name, sampling_rate, built,
                   features_df, prediction_num, probabilities, calls, result, rng0, arg, out>>

\* one classifier is loaded: the 3-axis forest or the margin classifier
InitConc ==
    /\ Init
    /\ rng = 0
    /\ models \in {<<ModelCatalog[1]>>, <<ModelCatalog[4]>>}

NextConc == Next \/ OtherPredict \/ OtherDraws

SpecConc == InitConc /\ [][NextConc]_vars

(***************************************************************************)
(* The functions of a model identifier, applied on their own: SpecId       *)
(* draws an identifier and applies the strategy dispatch or the            *)
(* sampling-rate inference to it.                                          *)
(***************************************************************************)
Fragments ==
    {"myRF_", "3axis", "_50000", "_", "0", "Axial", "radial", "TANGENTIAL",
     "3", "axis", "x"}

RECURSIVE Identifiers(_)
Identifiers(n) ==
    IF n = 0 THEN {""}
    ELSE Identifiers(n - 1) \cup {id \o f : id \in Identifiers(n - 1), f \in Fragments}

Quiet ==
    /\ models = <<>>
    /\ data = NoSamples
    /\ requested = ""
    /\ model_name = ""
    /\ sampling_rate = DefaultSamplingRate
    /\ built = NotBuilt
    /\ features_df = EmptyFrame
    /\ prediction_num = NoValue
    /\ probabilities = <<>>
    /\ calls = <<>>
    /\ result = NoResult
    /\ other = "idle"
    /\ EmptyStore

InitId ==
    /\ Quiet
    /\ rng = 0
    /\ rng0 = rng
    /\ pc = "identifier"
    /\ arg \in Identifiers(MaxParts)
    /\ out = NoValue

\* the strategy extract_features_by_model_type takes for the identifier
ApplyStrategy ==
    /\ pc = "identifier"
    /\ out' = PyStr(Strategy(arg))
    /\ pc' = "strategy"
    /\ UNCHANGED store
    /\ UNCHANGED <<models, rng0, other, rng, requested, data, model_name, sampling_rate, built,
                   features_df, prediction_num, probabilities, calls, result, arg>>

\* the sampling rate predict infers from the identifier
ApplyInferSamplingRate ==
    /\ pc = "identifier"
    /\ out' = PyInt(InferSamplingRate(arg))
    /\ pc' = "sampling-rate"
    /\ UNCHANGED store
    /\ UNCHANGED <<models, rng0, other, rng, requested, data, model_name, sampling_rate, built,
                   features_df, prediction_num, probabilities, calls, result, arg>>

NextId == ApplyStrategy \/ ApplyInferSamplingRate

SpecId == InitId /\ [][NextId]_vars

(***************************************************************************)
(* The feature extractors, applied on their own: SpecFeat draws an array   *)
(* and a sampling rate and applies one extractor to them.                  *)
(***************************************************************************)
SampleValues == {QInt(-2), Q(-1, 2), QInt(0), QInt(1)}

RECURSIVE Signals(_)
Signals(n) ==
    IF n = 0 THEN {<<>>}
    ELSE Signals(n - 1) \cup
         {Append(sig, v) : sig \in {t \in Signals(n - 1) : Len(t) = n - 1},
                           v \in SampleValues}

FeatArrays ==
    {Vec(sig) : sig \in Signals(MaxLen)}
      \cup {RampMatrix(n, k) : n \in 1..MaxLen, k \in 0..(n_channels + MaxExtraCols)}

FeatRates == {0, 25000, 50000}

InitFeat ==
    /\ Quiet
    /\ rng \in 0..(RngPeriod - 1)
    /\ rng0 = rng
    /\ pc = "array"
    /\ arg \in [arr : FeatArrays, sampling_rate : FeatRates]
    /\ out = Raise("")

ApplyTimeFeatures ==
    /\ pc = "array"
    /\ arg.arr.ndim = 1
    /\ out' = compute_basic_time_features(arg.arr.cols[1])
    /\ pc' = "time"
    /\ UNCHANGED store
    /\ UNCHANGED <<models, rng0, other, rng, requested, data, model_name, sampling_rate, built,
                   features_df, prediction_num, probabilities, calls, result, arg>>

ApplyFrequencyFeatures ==
    /\ pc = "array"
    /\ arg.arr.ndim = 1
    /\ out' = compute_frequency_features(arg.arr.cols[1], arg.sampling_rate)
    /\ pc' = "frequency"
    /\ UNCHANGED store
    /\ UNCHANGED <<models, rng0, other, rng, requested, data, model_name, sampling_rate, built,
                   features_df, prediction_num, probabilities, calls, result, arg>>

ApplyFull ==
    /\ pc = "array"
    /\ out' = extract_features_from_multi_channel_data(arg.arr, arg.sampling_rate)
    /\ pc' = "full"
    /\ UNCHANGED store
    /\ UNCHANGED <<models, rng0, other, rng, requested, data, model_name, sampling_rate, built,
                   features_df, prediction_num, probabilities, calls, result, arg>>

Apply3Axis ==
    /\ pc = "array"
    /\ \E r \in {extract_3axis_features(arg.arr, arg.sampling_rate, rng)} :
          /\ out' = r.res
          /\ rng' = r.rng
    /\ pc' = "3axis"
    /\ UNCHANGED store
    /\ UNCHANGED <<models, rng0, other, requested, data, model_name, sampling_rate, built,
                   features_df, prediction_num, probabilities, calls, result, arg>>

ApplySingleAxis(axis_type) ==
    /\ pc = "array"
    /\ out' = extract_single_axis_features(arg.arr, arg.sampling_rate, axis_type)
    /\ pc' = axis_type
    /\ UNCHANGED store
    /\ UNCHANGED <<models, rng0, other, rng, requested, data, model_name, sampling_rate, built,
                   features_df, prediction_num, probabilities, calls, result, arg>>

NextFeat ==
    \/ ApplyTimeFeatures
    \/ ApplyFrequencyFeatures
    \/ ApplyFull
    \/ Apply3Axis
    \/ \E axis_type \in {"axial", "radial", "tangential"} : ApplySingleAxis(axis_type)

SpecFeat == InitFeat /\ [][NextFeat]_vars

(***************************************************************************)
(* The time-domain features over the whole float range: SpecWide draws a   *)
(* signal whose samples may be so large that their squares overflow, and   *)
(* applies compute_basic_time_features to it.                              *)
(***************************************************************************)
WideValues == {QInt(-200), Q(-1, 2), QInt(0), QInt(1), QInt(200)}

RECURSIVE WideSignals(_)
WideSignals(n) ==
    IF n = 0 THEN {<<>>}
    ELSE WideSignals(n - 1) \cup
         {Append(sig, v) : sig \in {t \in WideSignals(n - 1) : Len(t) = n - 1},
                           v \in WideValues}

InitWide ==
    /\ Quiet
    /\ rng = 0
    /\ rng0 = rng
    /\ pc = "array"
    /\ arg \in [arr : {Vec(sig) : sig \in WideSignals(MaxLen)},
                sampling_rate : {DefaultSamplingRate}]
    /\ out = Raise("")

NextWide == ApplyTimeFeatures

SpecWide == InitWide /\ [][NextWide]_vars

(***************************************************************************)
(* The predictions table and DELETE /api/predictions/{prediction_id}       *)
(* (modules/prediction_db.py, app.py).  The table is the set of the ids of *)
(* its rows.  A request carries the table as it stands, the id asked for   *)
(* and where sqlite fails, if it does.                                     *)
(***************************************************************************)
DbErrors == {"none", "connect", "delete"}

\* PredictionDatabase.delete_prediction: whether the row was deleted, and the
\* table afterwards.  An sqlite error is caught and reported as False; the
\* connection's transaction is rolled back.
db_delete_prediction(table, prediction_id, db_error) ==
    IF db_error = "connect" THEN [deleted |-> FALSE, table |-> table]
    ELSE IF prediction_id \notin table THEN [deleted |-> FALSE, table |-> table]
    ELSE IF db_error = "delete" THEN [deleted |-> FALSE, table |-> table]
    ELSE [deleted |-> TRUE, table |-> table \ {prediction_id}]

\* fastapi.HTTPException, a subclass of Exception
HTTPException(status_code, detail) ==
    [status |-> status_code, detail |-> detail]

\* str(e) of an HTTPException, which depends on the installed starlette
HTTPExceptionTexts(e) == {ToString(e.status) \o ": " \o e.detail, e.detail, ""}

\* the handler of DELETE /api/predictions/{prediction_id}: the response, with
\* text as str(e) of an exception it catches, and the table afterwards
delete_prediction(table, prediction_id, db_error, text) ==
    LET d == db_delete_prediction(table, prediction_id, db_error) IN
    IF d.deleted
    THEN [status |-> 200, message |-> "Prediction deleted successfully",
          id |-> prediction_id, table |-> d.table]
    ELSE \* raise HTTPException(404), caught by except Exception of the handler
         [status |-> HTTPException(500, text).status,
          detail |-> HTTPException(500, text).detail, table |-> d.table]

InitDb ==
    /\ Quiet
    /\ rng = 0
    /\ rng0 = rng
    /\ pc = "request"
    /\ arg \in [table : SUBSET (1..MaxId), prediction_id : 0..MaxId, db_error : DbErrors]
    /\ out = NoValue

ApplyDeletePrediction ==
    /\ pc = "request"
    /\ \E text \in HTTPExceptionTexts(HTTPException(404, "Prediction not found")) :
          out' = delete_prediction(arg.table, arg.prediction_id, arg.db_error, text)
    /\ pc' = "response"
    /\ UNCHANGED store
    /\ UNCHANGED <<models, rng0, other, rng, requested, data, model_name, sampling_rate, built,
                   features_df, prediction_num, probabilities, calls, result, arg>>

NextDb == ApplyDeletePrediction

SpecDb == InitDb /\ [][NextDb]_vars

(***************************************************************************)
(* POST /api/recordings/{device_id}/period (get_recordings_by_period of    *)
(* app.py) and the look-back it hands to PCHCloudClient.get_recordings of  *)
(* modules/pch_client.py.  A request carries period_type, the length of    *)
(* the custom interval end_time - start_time in seconds (or none) and the  *)
(* field hours_back (or none).  Hours are exact rationals.                 *)
(***************************************************************************)
\* a field of the request body: given with a value, or absent
Given(v) == [given |-> TRUE, v |-> v]
Absent == [given |-> FALSE, v |-> 0]

PeriodTypes == {"last_minute", "last_hour", "last_24h", "custom", "hours"}
\* end_time - start_time of a request, in seconds
IntervalSeconds == {-3600, 0, 60, 1800, 3599, 3600, 5400, 86400}
HoursBackFields == {-1, 0, 1, 24}

\* _calculate_custom_period_hours: total_seconds() / 3600, or 24 without dates
CalculateCustomPeriodHours(period_data) ==
    IF period_data.interval.given THEN Q(period_data.interval.v, 3600) ELSE QInt(24)

\* hours_back, by the type of the period
HoursBack(period_data) ==
    IF period_data.period_type = "last_minute" THEN Q(1, 60)
    ELSE IF period_data.period_type = "last_hour" THEN QInt(1)
    ELSE IF period_data.period_type = "last_24h" THEN QInt(24)
    ELSE IF period_data.period_type = "custom" THEN CalculateCustomPeriodHours(period_data)
    ELSE IF period_data.hours_back.given THEN QInt(period_data.hours_back.v)
    ELSE QInt(24)

QMax(a, b) == IF QLess(a, b) THEN b ELSE a

\* int(x) of a float: truncation towards zero
IntTrunc(a) == IF a.n >= 0 THEN a.n \div a.d ELSE -((-a.n) \div a.d)

\* int(max(hours_back, 0.016)), the second argument of pch_client.get_recordings
LookBackHours(period_data) == IntTrunc(QMax(HoursBack(period_data), Q(16, 1000)))

\* PCHCloudClient.get_recordings: the length in seconds of the window from
\* start_time = end_time - timedelta(hours=hours_back) to end_time = now, which
\* it sends to the cloud as start and end
get_recordings(hours_back) == [hours_back |-> hours_back, window |-> 3600 * hours_back]

InitPeriod ==
    /\ Quiet
    /\ rng = 0
    /\ rng0 = rng
    /\ pc = "period-request"
    /\ arg \in [period_type : PeriodTypes,
                interval : {Given(s) : s \in IntervalSeconds} \cup {Absent},
                hours_back : {Given(x) : x \in HoursBackFields} \cup {Absent}]
    /\ out = NoValue

\* get_recordings_by_period, up to its call of the cloud client
ApplyGetRecordingsByPeriod ==
    /\ pc = "period-request"
    /\ out' = get_recordings(LookBackHours(arg))
    /\ pc' = "period-response"
    /\ UNCHANGED store
    /\ UNCHANGED <<models, rng0, other, rng, requested, data, model_name, sampling_rate, built,
                   features_df, prediction_num, probabilities, calls, result, arg>>

NextPeriod == ApplyGetRecordingsByPeriod

SpecPeriod == InitPeriod /\ [][NextPeriod]_vars

(***************************************************************************)
(* The table predictions of modules/prediction_db.py as a state: its rows  *)
(* (without the columns timestamp, device_name and probabilities, which no *)
(* operation reads), the counter of AUTOINCREMENT and the clock that       *)
(* created_at is read from.  SpecStore lets save_prediction,               *)
(* delete_prediction and cleanup_old_predictions act on it in any order.   *)
(***************************************************************************)
\* what predict can hand back: a complete result with or without
\* probabilities, or the record of an error
PredictResults ==
    {[prediction |-> "imbalance", prediction_class |-> PyInt(3),
      probabilities |-> PyDict(<< <<"normal", Q(1, 4)>>, <<"imbalance", Q(3, 4)>> >>),
      model_used |-> "myRF_3axis_50000", features_count |-> 60, sampling_rate |-> 50000],
     [prediction |-> "outer_race", prediction_class |-> PyInt(6),
      probabilities |-> PyNone,
      model_used |-> "knn", features_count |-> 140, sampling_rate |-> 25000],
     [error |-> "No features extracted"]}

\* the columns of UNIQUE(device_id, recording_id, model_name, channel)
UniqueKey(row) == <<row.device_id, row.recording_id, row.model_name, row.channel>>

StoreKeys ==
    {[device_id |-> "host.dev", recording_id |-> k[1],
      model_name |-> "myRF_3axis_50000", channel |-> k[2]] :
        k \in {<<"r1", 1>>, <<"r1", 2>>, <<"r2", 1>>}}

\* the calls of save_prediction: a result saved as a success, or None saved
\* as a failure with the message of the exception
SaveCalls ==
    {[prediction_result |-> r, success |-> TRUE, error_message |-> ""] :
        r \in PredictResults}
      \cup {[prediction_result |-> PyNone, success |-> FALSE, error_message |-> "timeout"]}

SaveErrors == {"none", "connect", "insert"}

\* bool(x) of a prediction_result or of its probabilities
Truthy(x) ==
    IF "none" \in DOMAIN x THEN ~x.none /\ Len(x.items) > 0
    ELSE DOMAIN x # {}

\* DerivedColumns reading the result: a result that carries the key error is
\* stored as the class "error", like a failure
DerivedColumns_ErrorAware(prediction_result, success) ==
    IF success /\ Truthy(prediction_result) /\ "error" \notin DOMAIN prediction_result
    THEN LET probs == IF "probabilities" \in DOMAIN prediction_result
                      THEN prediction_result.probabilities ELSE PyDict(<<>>)
         IN  [predicted_class |->
                 IF "prediction" \in DOMAIN prediction_result
                 THEN prediction_result.prediction ELSE "unknown",
              confidence |->
                 IF Truthy(probs)
                 THEN MaxOf([i \in 1..Len(probs.items) |-> probs.items[i][2]])
                 ELSE QInt(0)]
    ELSE [predicted_class |-> "error", confidence |-> QInt(0)]

\* the columns save_prediction derives from the result (lines 103-111)
DerivedColumns(prediction_result, success) ==
    IF success /\ Truthy(prediction_result)
    THEN LET probs == IF "probabilities" \in DOMAIN prediction_result
                      THEN prediction_result.probabilities ELSE PyDict(<<>>)
         IN  [predicted_class |->
                 IF "prediction" \in DOMAIN prediction_result
                 THEN prediction_result.prediction ELSE "unknown",
              confidence |->
                 IF Truthy(probs)
                 THEN MaxOf([i \in 1..Len(probs.items) |-> probs.items[i][2]])
                 ELSE QInt(0)]
    ELSE [predicted_class |-> "error", confidence |-> QInt(0)]

\* save_prediction with a plain INSERT and no UNIQUE constraint: the new row is
\* added next to the one that holds the same key
save_prediction_Insert(table, sequence, clock, key, prediction_result, success, error_message, db_error) ==
    IF db_error # "none"
    THEN [saved |-> FALSE, table |-> table, sequence |-> sequence]
    ELSE LET d == DerivedColumns(prediction_result, success)
             row == [id |-> sequence + 1,
                     device_id |-> key.device_id, recording_id |-> key.recording_id,
                     model_name |-> key.model_name, channel |-> key.channel,
                     predicted_class |-> d.predicted_class, confidence |-> d.confidence,
                     success |-> success, error_message |-> error_message,
                     created_at |-> clock]
         IN  [saved |-> TRUE, table |-> table \cup {row}, sequence |-> sequence + 1]

\* PredictionDatabase.save_prediction: whether it returned True, the table and
\* the AUTOINCREMENT counter afterwards.  INSERT OR REPLACE deletes the row
\* that holds the same unique key and inserts the new one under a fresh id; an
\* sqlite error is caught, the transaction is rolled back, False is returned.
save_prediction(table, sequence, clock, key, prediction_result, success, error_message, db_error) ==
    IF db_error # "none"
    THEN [saved |-> FALSE, table |-> table, sequence |-> sequence]
    ELSE LET d == DerivedColumns(prediction_result, success)
             row == [id |-> sequence + 1,
                     device_id |-> key.device_id, recording_id |-> key.recording_id,
                     model_name |-> key.model_name, channel |-> key.channel,
                     predicted_class |-> d.predicted_class, confidence |-> d.confidence,
                     success |-> success, error_message |-> error_message,
                     created_at |-> clock]
         IN  [saved |-> TRUE,
              table |-> {r \in table : UniqueKey(r) # UniqueKey(row)} \cup {row},
              sequence |-> sequence + 1]

\* PredictionDatabase.cleanup_old_predictions: DELETE ... WHERE created_at <
\* cutoff_date; the number of rows deleted (0 on an error) and the table
cleanup_old_predictions(table, clock, days_to_keep, db_error) ==
    IF db_error # "none" THEN [deleted_count |-> 0, table |-> table]
    ELSE LET old == {r \in table : r.created_at < clock - days_to_keep}
         IN  [deleted_count |-> Cardinality(old), table |-> table \ old]

MaxDays == 1

InitStore ==
    /\ Quiet
    /\ rng = 0
    /\ rng0 = rng
    /\ pc = "serving"
    /\ arg = NoValue
    /\ out = NoValue

unchanged_predictor ==
    UNCHANGED <<models, rng0, other, rng, requested, data, model_name, sampling_rate, built,
                features_df, prediction_num, probabilities, calls, result, pc>>

SavePrediction ==
    /\ pc = "serving"
    /\ sqlite_sequence < MaxId
    /\ \E key \in StoreKeys, call \in SaveCalls, db_error \in SaveErrors :
       \E s \in {save_prediction(predictions, sqlite_sequence, now, key,
                                 call.prediction_result, call.success,
                                 call.error_message, db_error)} :
          /\ arg' = [op |-> "save_prediction", key |-> key, call |-> call]
          /\ out' = [returned |-> s.saved]
          /\ predictions' = s.table
          /\ sqlite_sequence' = s.sequence
    /\ UNCHANGED now
    /\ unchanged_predictor

DeletePrediction ==
    /\ pc = "serving"
    /\ \E prediction_id \in 0..MaxId, db_error \in DbErrors :
       \E d \in {db_delete_prediction({r.id : r \in predictions}, prediction_id, db_error)} :
          /\ arg' = [op |-> "delete_prediction", key |-> prediction_id]
          /\ out' = [returned |-> d.deleted]
          /\ predictions' = {r \in predictions : r.id \in d.table}
    /\ UNCHANGED <<sqlite_sequence, now>>
    /\ unchanged_predictor

CleanupOldPredictions ==
    /\ pc = "serving"
    /\ \E days_to_keep \in 0..MaxDays, db_error \in {"none", "connect"} :
       \E c \in {cleanup_old_predictions(predictions, now, days_to_keep, db_error)} :
          /\ arg' = [op |-> "cleanup_old_predictions", key |-> days_to_keep]
          /\ out' = [returned |-> c.deleted_count]
          /\ predictions' = c.table
    /\ UNCHANGED <<sqlite_sequence, now>>
    /\ unchanged_predictor

\* a day passes
Tick ==
    /\ pc = "serving"
    /\ now < MaxDays
    /\ now' = now + 1
    /\ UNCHANGED <<predictions, sqlite_sequence, arg, out>>
    /\ unchanged_predictor

NextStore == SavePrediction \/ DeletePrediction \/ CleanupOldPredictions \/ Tick

SpecStore == InitStore /\ [][NextStore]_vars

(***************************************************************************)
(* POST /api/predict/period (predict_period_data of app.py).  A request    *)
(* names a device; the cloud answers with the recordings of the period,    *)
(* each with its id ("" when it has none) and with what predict returns    *)
(* for its data.  Neither pch_client.get_recording_data (which returns {}  *)
(* on any failure) nor predict lets an exception out, so a recording has   *)
(* no outcome that raises.                                                 *)
(***************************************************************************)
MaxRecordings == 3

RecordingIds == {"", "r1", "r2"}

RECURSIVE RecordingLists(_)
RecordingLists(n) ==
    IF n = 0 THEN {<<>>}
    ELSE RecordingLists(n - 1) \cup
         {Append(l, [id |-> i, outcome |-> Ok(p)]) :
            l \in {q \in RecordingLists(n - 1) : Len(q) = n - 1},
            i \in RecordingIds, p \in PredictResults}

\* prediction_counts[prediction_class] += 1 over the successful entries
RECURSIVE CountClasses(_, _, _)
CountClasses(counts, entries, i) ==
    IF i > Len(entries) THEN counts
    ELSE IF ~entries[i].success THEN CountClasses(counts, entries, i + 1)
    ELSE LET c == IF "prediction" \in DOMAIN entries[i].prediction
                  THEN entries[i].prediction.prediction ELSE "unknown"
             old == IF \E k \in 1..Len(counts) : counts[k][1] = c
                    THEN Get(counts, c) ELSE 0
         IN  CountClasses(DictSet(counts, c, old + 1), entries, i + 1)

\* the loop over the recordings: the entries of the response, the two counters
\* and the table, after the recordings from i on
RECURSIVE PeriodLoop(_, _, _, _, _)
PeriodLoop(s, request, recordings, clock, i) ==
    IF i > Len(recordings) THEN s
    ELSE IF recordings[i].id = "" THEN PeriodLoop(s, request, recordings, clock, i + 1)
    ELSE LET key == [device_id |-> request.device_id, recording_id |-> recordings[i].id,
                     model_name |-> request.model_name, channel |-> request.channel]
             o == recordings[i].outcome
         IN  IF o.ok
             THEN LET sv == save_prediction(s.table, s.sequence, clock, key, o.val, TRUE,
                                            "", request.db_error)
                  IN  PeriodLoop([entries |-> Append(s.entries,
                                      [recording_id |-> recordings[i].id,
                                       prediction |-> o.val, success |-> TRUE]),
                                  successful_count |-> s.successful_count + 1,
                                  failed_count |-> s.failed_count,
                                  table |-> sv.table, sequence |-> sv.sequence],
                                 request, recordings, clock, i + 1)
             ELSE LET sv == save_prediction(s.table, s.sequence, clock, key, PyNone, FALSE,
                                            o.err, request.db_error)
                  IN  PeriodLoop([entries |-> Append(s.entries,
                                      [recording_id |-> recordings[i].id,
                                       error |-> o.err, success |-> FALSE]),
                                  successful_count |-> s.successful_count,
                                  failed_count |-> s.failed_count + 1,
                                  table |-> sv.table, sequence |-> sv.sequence],
                                 request, recordings, clock, i + 1)

\* predict_period_data: the response, the table and the counter afterwards
predict_period_data(request, table, sequence, clock) ==
    IF request.device_id = ""
    THEN [response |-> HTTPException(400, "device_id is required"),
          table |-> table, sequence |-> sequence]
    ELSE IF request.recordings = <<>>
    THEN [response |->
             [status |-> 200, error |-> "No recordings found for the specified period",
              predictions |-> <<>>,
              summary |-> [total_recordings |-> 0, successful_predictions |-> 0,
                           failed_predictions |-> 0, prediction_distribution |-> <<>>]],
          table |-> table, sequence |-> sequence]
    ELSE LET s == PeriodLoop([entries |-> <<>>, successful_count |-> 0,
                              failed_count |-> 0, table |-> table, sequence |-> sequence],
                             request, request.recordings, clock, 1)
         IN  [response |->
                 [status |-> 200, device_id |-> request.device_id,
                  model_used |-> request.model_name,
                  predictions |-> s.entries,
                  summary |-> [total_recordings |-> Len(request.recordings),
                               successful_predictions |-> s.successful_count,
                               failed_predictions |-> s.failed_count,
                               prediction_distribution |->
                                  CountClasses(<<>>, s.entries, 1)]],
              table |-> s.table, sequence |-> s.sequence]

InitBatch ==
    /\ Quiet
    /\ rng = 0
    /\ rng0 = rng
    /\ pc = "period-predict-request"
    /\ arg \in [device_id : {"", "host.dev"}, model_name : {"myRF_3axis_50000"},
                channel : {1}, recordings : RecordingLists(MaxRecordings),
                db_error : {"none", "insert"}]
    /\ out = NoValue

ApplyPredictPeriodData ==
    /\ pc = "period-predict-request"
    /\ \E r \in {predict_period_data(arg, predictions, sqlite_sequence, now)} :
          /\ out' = r.response
          /\ predictions' = r.table
          /\ sqlite_sequence' = r.sequence
    /\ pc' = "period-predict-response"
    /\ UNCHANGED <<models, rng0, other, rng, requested, data, model_name, sampling_rate, built,
                   features_df, prediction_num, probabilities, calls, result, arg, now>>

NextBatch == ApplyPredictPeriodData

SpecBatch == InitBatch /\ [][NextBatch]_vars

(***************************************************************************)
(* Properties                                                              *)
(***************************************************************************)
ResultKeys ==
    {"prediction", "prediction_class", "probabilities", "model_used", "features_count",
     "sampling_rate"}

\* where a call of predict can stand; "raised" is an exception leaving it
Positions ==
    {"idle", "resolve-model", "infer-sampling-rate", "build-channels", "select-features",
     "classify", "probabilities", "done", "failed"}

\* C1: predict returns a record and never raises, whatever the data, the
\* identifier and the loaded models: a call that has begun can always go on
\* until it returns, no exception leaves it, and what it returns is either a
\* record whose only key is error or a record with exactly the six keys of a
\* Prediction Result, whose probabilities are None exactly when the
\* classifier used has no predict_proba.
C1_PredictNeverRaises ==
    /\ pc # "raised"
    /\ pc \in Positions
    /\ pc = "failed" => DOMAIN result = {"error"}
    /\ pc = "done" =>
          /\ DOMAIN result = ResultKeys
          /\ result.probabilities.none <=> ~ModelOf(models, result.model_used).has_proba

\* a complete result of a classifier without predict_proba
C1_Witness ==
    /\ pc = "done"
    /\ "error" \notin DOMAIN result
    /\ result.probabilities = PyNone

\* C2: with no classifier loaded, predict returns exactly
\* {"error": "No models available"} for every data value and identifier, and
\* neither assembles channels, nor extracts features, nor calls a classifier.
C2_NoModelsAvailable ==
    Len(models) = 0 =>
       /\ pc \in {"idle", "resolve-model", "failed"}
       /\ pc = "failed" => result = [error |-> "No models available"]
       /\ built = NotBuilt /\ features_df = EmptyFrame /\ calls = <<>>

\* a call on an empty registry, with samples in its data, has returned
C2_Witness ==
    /\ Len(models) = 0
    /\ pc = "failed"
    /\ data.kind = "samples"
    /\ result = [error |-> "No models available"]

\* the requests whose features cannot be extracted: no mapping, no "samples"
\* key, a matrix without columns, no sample at all, a sampling rate of 0
C3_Degenerate ==
    \/ data.kind \in {"none", "nokey"}
    \/ /\ data.kind = "samples"
       /\ \/ data.arr.ndim = 2 /\ NCols(data.arr) = 0
          \/ data.arr.nrows = 0
          \/ sampling_rate = 0

\* C3: once a model is resolved, a request whose feature vector comes out
\* empty (no samples key, a matrix of zero columns, an exception in the
\* channel assembly or the feature computation, as for an empty sample
\* sequence or an inferred sampling rate of 0) returns exactly
\* {"error": "No features extracted"}, and the classifier is not called:
\* classification only ever sees a feature vector with at least one feature.
C3_NoFeaturesExtracted ==
    /\ pc \in {"classify", "probabilities", "done"} =>
          features_df.rows = 1 /\ Len(features_df.cols) > 0
    /\ (Len(models) > 0 /\ pc = "failed" /\ Len(features_df.cols) = 0) =>
          result = [error |-> "No features extracted"] /\ calls = <<>>
    /\ (pc \in {"classify", "probabilities", "done", "failed"} /\ Len(models) > 0
          /\ C3_Degenerate) =>
          /\ pc = "failed"
          /\ result = [error |-> "No features extracted"]
          /\ calls = <<>>

\* a request with samples failed for a sampling rate of 0
C3_Witness ==
    /\ pc = "failed"
    /\ data.kind = "samples" /\ data.arr.nrows > 0 /\ NCols(data.arr) > 0
    /\ sampling_rate = 0
    /\ result = [error |-> "No features extracted"]

\* C4: the strategy is decided by the lower-cased identifier alone, in the
\* order 3axis, axial, radial, tangential, full: an identifier with "3axis"
\* takes the 3-axis strategy even if it also holds "axial", and exactly one
\* strategy is selected.
C4_DispatchPrecedence ==
    pc = "strategy" =>
       LET has3 == Contains(Lower(arg), "3axis")
           hasA == Contains(Lower(arg), "axial")
           hasR == Contains(Lower(arg), "radial")
           hasT == Contains(Lower(arg), "tangential")
       IN  /\ has3 => out.s = "3axis"
           /\ (~has3 /\ hasA) => out.s = "axial"
           /\ (~has3 /\ ~hasA /\ hasR) => out.s = "radial"
           /\ (~has3 /\ ~hasA /\ ~hasR /\ hasT) => out.s = "tangential"
           /\ (~has3 /\ ~hasA /\ ~hasR /\ ~hasT) => out.s = "full"
           /\ out.s \in {"3axis", "axial", "radial", "tangential", "full"}

\* an identifier with "3axis" and "axial", in upper and lower case, dispatched
C4_Witness ==
    /\ pc = "strategy"
    /\ Contains(Lower(arg), "3axis") /\ Contains(Lower(arg), "axial")
    /\ ~Contains(arg, "axial")
    /\ out.s = "3axis"

\* the tokens of an identifier that are purely numeric, by position
C5_NumericTokens(id) == {i \in 1..Len(Split(id)) : IsDigit(Split(id)[i])}

\* the value of the first purely numeric token, 25000 when there is none
C5_FirstNumericToken(id) ==
    IF C5_NumericTokens(id) = {} THEN 25000
    ELSE IntOf(Split(id)[CHOOSE i \in C5_NumericTokens(id) :
                            \A j \in C5_NumericTokens(id) : i <= j])

\* C5: the sampling rate predict uses is the integer value of the first token
\* of the identifier, split on "_", that consists solely of digits, and 25000
\* when no token does, for every identifier, one without "_" included.
C5_SamplingRateOfEveryIdentifier ==
    pc = "sampling-rate" => out.i = C5_FirstNumericToken(arg)

C6_StatNames ==
    <<"time_mean", "time_std", "time_rms", "time_max", "time_min", "time_peak_to_peak",
      "time_mean_abs", "time_crest_factor", "time_shape_factor", "time_impulse_factor",
      "time_skewness", "time_kurtosis", "time_energy", "time_zero_crossing_rate",
      "freq_dominant_freq", "freq_dominant_amp", "freq_spectral_energy",
      "freq_spectral_centroid", "freq_spectral_bandwidth", "freq_spectral_flatness">>

C6_Channels ==
    <<"tachometer", "underhang-axial", "underhang-radial", "underhang-tangential",
      "overhang-axial", "overhang-radial", "overhang-tangential">>

\* the names of the full strategy on m channels, in order
C6_FullNames(m) ==
    [i \in 1..(20 * m) |->
       C6_StatNames[((i - 1) % 20) + 1] \o "_" \o C6_Channels[((i - 1) \div 20) + 1]]

C6_Distinct(names) == Cardinality({names[i] : i \in 1..Len(names)}) = Len(names)

C7_Name(c) ==
    CASE c = 0 -> "normal"
      [] c = 1 -> "horizontal-misalignment"
      [] c = 2 -> "vertical-misalignment"
      [] c = 3 -> "imbalance"
      [] c = 4 -> "ball_fault"
      [] c = 5 -> "cage_fault"
      [] c = 6 -> "outer_race"
      [] OTHER -> "clase_" \o ToString(c)

C7_IntegerCodes(classes) == \A j \in 1..Len(classes) : classes[j].val.t = "int"

\* C7: the taxonomy is total and fixed: the codes 0..6 have their seven names
\* and any other integer code c renders as clase_c; a returned result names
\* its predicted class code by this mapping, and every key of its probability
\* mapping is this mapping's name of the class code (or, without classes_, of
\* the position) the probability belongs to.
C7_TaxonomyTotal ==
    /\ DOMAIN CLASS_NAMES = 0..6
    /\ \A c \in 0..6 : CLASS_NAMES[c] = C7_Name(c)
    /\ (pc = "done" /\ result.prediction_class.t = "int") =>
          result.prediction = C7_Name(result.prediction_class.i)
    /\ (pc = "done" /\ ~result.probabilities.none) =>
          LET model == ModelOf(models, model_name)
              items == result.probabilities.items
          IN  IF model.has_classes
              THEN C7_IntegerCodes(model.classes) =>
                      \A j \in 1..Len(items) :
                         items[j][1] = C7_Name(model.classes[j].val.i)
              ELSE \A j \in 1..Len(items) : items[j][1] = C7_Name(j - 1)

\* class code 9 predicted and reported as clase_9, among the probabilities too
C7_Witness ==
    /\ pc = "done"
    /\ result.prediction_class = PyInt(9)
    /\ result.prediction = "clase_9"
    /\ \E j \in 1..Len(result.probabilities.items) :
          result.probabilities.items[j][1] = "clase_9"

\* the feature count of a strategy on a matrix of k columns
C8_Width(strategy, k) ==
    IF strategy = "3axis" THEN 60
    ELSE IF strategy = "full" THEN 20 * Min(7, k)
    ELSE 20

C8_Substituted == Len(models) > 0 /\ ~HasName(models, requested)

\* C8: a requested identifier that is not loaded, with a model loaded, is
\* replaced by the first loaded model: the call goes on with that identifier,
\* the sampling rate and the feature strategy are those of the substituted
\* identifier, and model_used of the result is the substituted identifier,
\* never the requested one.
C8_SubstitutesFirstLoaded ==
    (C8_Substituted /\ pc \notin {"idle", "resolve-model"}) =>
       /\ model_name = models[1].name
       /\ pc \notin {"infer-sampling-rate"} =>
             sampling_rate = InferSamplingRate(models[1].name)
       /\ pc \in {"classify", "probabilities", "done"} =>
             Len(features_df.cols) = C8_Width(Strategy(models[1].name), NCols(built.val.arr))
       /\ pc = "done" =>
             /\ result.model_used = models[1].name
             /\ result.model_used # requested
             /\ result.sampling_rate = InferSamplingRate(models[1].name)
             /\ result.features_count =
                   C8_Width(Strategy(models[1].name), NCols(built.val.arr))
       /\ pc = "failed" => result.error # "No models available"

\* a request for an unknown tangential model at rate 100, answered by the
\* 3-axis model at rate 50000 that was loaded first of two
C8_Witness ==
    /\ pc = "done"
    /\ Len(models) = 2
    /\ requested = "lost_Tangential_100"
    /\ result.model_used = "myRF_3axis_50000"
    /\ result.sampling_rate = 50000
    /\ result.features_count = 60

C9_IsConstant(sig) == Len(sig) >= 1 /\ \A i \in 1..Len(sig) : sig[i] = sig[1]

\* C9: for a non-empty sample sequence whose samples all equal c (positive,
\* negative or zero) the time-domain features have RMS = |c|, peak-to-peak = 0
\* and zero-crossing rate = 0.
C9_ConstantSignal ==
    (pc = "time" /\ C9_IsConstant(arg.arr.cols[1])) =>
       /\ out.ok
       /\ Get(out.val, "rms") = NumQ(QAbs(arg.arr.cols[1][1]))
       /\ Get(out.val, "peak_to_peak") = NumQ(QInt(0))
       /\ Get(out.val, "zero_crossing_rate") = NumQ(QInt(0))

\* the time features of a constant negative sequence of several samples
C9_Witness ==
    /\ pc = "time"
    /\ Len(arg.arr.cols[1]) >= 2
    /\ C9_IsConstant(arg.arr.cols[1])
    /\ arg.arr.cols[1][1].n < 0
    /\ out.ok
    /\ Get(out.val, "rms") = NumQ(QAbs(arg.arr.cols[1][1]))

\* C10: for a non-empty sample sequence whose samples all equal c, the crest
\* factor is 1 when c # 0, negative c included, and NaN when c = 0.
C10_CrestFactorOfConstant ==
    (pc = "time" /\ C9_IsConstant(arg.arr.cols[1])) =>
       /\ out.ok
       /\ arg.arr.cols[1][1].n # 0 => Get(out.val, "crest_factor") = NumQ(QInt(1))
       /\ arg.arr.cols[1][1].n = 0 => IsNaN(Get(out.val, "crest_factor"))

C11_Names ==
    <<"dominant_freq", "dominant_amp", "spectral_energy", "spectral_centroid",
      "spectral_bandwidth", "spectral_flatness">>

C11_AllZero(sig) == \A i \in 1..Len(sig) : sig[i].n = 0

\* the retained half spectrum (the first N \div 2 bins) is empty or all zero
C11_Degenerate(sig) ==
    \/ Len(sig) = 1
    \/ C11_AllZero(sig)
    \/ HalfSpectrumIsZero(sig)

\* C11: for a signal of length >= 1 and a positive sampling rate the
\* frequency-feature extraction returns (it never raises) the same six names
\* in every case, and all six values are NaN whenever the retained half
\* spectrum is empty (N = 1) or sums to zero (as for an all-zero signal).
C11_FrequencyFeaturesNeverRaise ==
    (pc = "frequency" /\ Len(arg.arr.cols[1]) >= 1 /\ arg.sampling_rate > 0) =>
       /\ out.ok
       /\ Keys(out.val) = C11_Names
       /\ C11_Degenerate(arg.arr.cols[1]) =>
             \A i \in 1..Len(out.val) : IsNaN(out.val[i][2])

\* the frequency features of an all-zero signal of several samples: six NaN
C11_Witness ==
    /\ pc = "frequency"
    /\ Len(arg.arr.cols[1]) >= 2 /\ C11_AllZero(arg.arr.cols[1])
    /\ arg.sampling_rate > 0
    /\ out.ok /\ Len(out.val) = 6
    /\ \A i \in 1..Len(out.val) : IsNaN(out.val[i][2])

\* the identifier predict works with for the request of the current call
C12_Resolved == ResolvedName(models, requested).val

\* what preprocess_data yields for the current request if the generator
\* stands at r when it is called
C12_Preprocessed(r) ==
    preprocess_data(data, C12_Resolved, InferSamplingRate(C12_Resolved), r)

C12_MultiChannel == data.kind = "samples" /\ data.arr.ndim = 2

\* C12: on a multi-column sample matrix predict is deterministic: the feature
\* vector handed to the classifier is the same whatever the position of the
\* random generator (whatever calls came before), no step of the call draws
\* from the generator, and the result is a function of the request, the loaded
\* models and what the classifier returned for that feature vector.
C12_MultiChannelDeterministic ==
    /\ [](C12_MultiChannel =>
            /\ rng = rng0
            /\ pc = "classify" =>
                  \A r \in 0..(RngPeriod - 1) :
                     \E p \in {C12_Preprocessed(r)} : p.df = features_df /\ p.rng = r
            /\ pc = "done" =>
                  result =
                     [prediction |-> PredictionName(prediction_num),
                      prediction_class |-> prediction_num,
                      probabilities |->
                         IF ModelOf(models, C12_Resolved).has_proba
                         THEN ProbDict(ModelOf(models, C12_Resolved), probabilities).val
                         ELSE PyNone,
                      model_used |-> C12_Resolved,
                      features_count |-> Len(features_df.cols),
                      sampling_rate |-> InferSamplingRate(C12_Resolved)])
    /\ [][/\ C12_MultiChannel => rng' = rng
          /\ pc \in {"classify", "probabilities"} => features_df' = features_df]_vars

\* a matrix of several columns classified by a 3-axis model
C12_Witness ==
    /\ pc = "done"
    /\ C12_MultiChannel /\ NCols(data.arr) >= 4 /\ data.arr.nrows >= 2
    /\ Strategy(result.model_used) = "3axis"
    /\ result.features_count = 60

\* the request of the scenario: the axial model at rate 50000 is loaded and
\* asked for, the data is a 1-D sequence of zero samples
C13_Request ==
    /\ requested = "myRF_axial_50000"
    /\ HasName(models, "myRF_axial_50000")
    /\ data.kind = "samples" /\ data.arr.ndim = 1
    /\ Len(data.arr.cols[1]) >= 1
    /\ \A i \in 1..Len(data.arr.cols[1]) : data.arr.cols[1][i].n = 0

\* C13: with the model myRF_axial_50000 loaded and requested and a signal of
\* zero samples, the channels are assembled and the features extracted without
\* an exception: the call reaches the classify step with 20 features, NaN
\* among them; it fails only if the classifier does, and a result it returns
\* has sampling_rate = 50000 and features_count = 20.
C13_ZeroSignalEndToEnd ==
    C13_Request =>
       /\ pc = "select-features" => built.ok
       /\ pc \in {"classify", "probabilities", "done", "failed"} =>
             /\ features_df.rows = 1 /\ Len(features_df.cols) = 20
             /\ IsNaN(Get(features_df.cols, "time_crest_factor"))
             /\ IsNaN(Get(features_df.cols, "freq_dominant_freq"))
             /\ sampling_rate = 50000
       /\ pc = "failed" =>
             /\ Len(calls) >= 1
             /\ result.error \in {"predict failed", "predict_proba failed"}
                   \/ calls = <<"predict", "predict_proba">>
       /\ pc = "done" =>
             /\ result.sampling_rate = 50000
             /\ result.features_count = 20
             /\ result.model_used = "myRF_axial_50000"

\* the scenario, on the longest zero signal, answered with a result
C13_Witness ==
    /\ C13_Request
    /\ Len(data.arr.cols[1]) = MaxLen
    /\ pc = "done"
    /\ result.sampling_rate = 50000 /\ result.features_count = 20
    /\ IsNaN(Get(features_df.cols, "time_shape_factor"))

C14_Values(items) == [j \in 1..Len(items) |-> items[j][2]]

\* C14: whenever the classifier used has predict_proba, the values of the
\* reported probability mapping are exactly the entries of the vector it
\* returned, none dropped or merged, so both sum to the same total, whatever
\* the lengths of the class-code list and the vector and whatever names the
\* class codes render to.
C14_ProbabilitiesPreserved ==
    (pc = "done" /\ ModelOf(models, model_name).has_proba) =>
       /\ ~result.probabilities.none
       /\ C14_Values(result.probabilities.items) = probabilities
       /\ SumSeq(C14_Values(result.probabilities.items)) = SumSeq(probabilities)

\* C15: the noise a predict call draws, and with it the feature vector it
\* classifies, is that of the call running alone from the generator position
\* it began with, whatever a concurrent call does in the meantime.
C15_NoiseIsCallLocal ==
    (pc = "classify" /\ data.kind = "samples" /\ data.arr.ndim = 1) =>
       features_df = preprocess_data(data, model_name, sampling_rate, rng0).df

\* C16: no step of predict, on the success path or on an error path, with or
\* without a substitution, changes the registry: the loaded identifiers, their
\* order and the classifier bound to each stay as construction left them, and
\* the taxonomy keeps its seven entries.
C16_RegistryReadOnly ==
    /\ [][models' = models]_vars
    /\ [](DOMAIN CLASS_NAMES = 0..6)

\* a call answered by a substituted model, with two models loaded
C16_Witness ==
    /\ pc = "done"
    /\ Len(models) = 2
    /\ ~HasName(models, requested)
    /\ result.model_used = models[1].name

\* the positions that can follow a position of a call
C17_Successors(p) ==
    CASE p = "idle" -> {"resolve-model"}
      [] p = "resolve-model" -> {"infer-sampling-rate", "failed"}
      [] p = "infer-sampling-rate" -> {"build-channels"}
      [] p = "build-channels" -> {"select-features"}
      [] p = "select-features" -> {"classify", "failed"}
      [] p = "classify" -> {"probabilities", "failed"}
      [] p = "probabilities" -> {"done", "failed"}
      [] p \in {"done", "failed"} -> {"idle"}

\* what holds of a call at each position
C17_Call ==
    /\ pc \in {"idle", "resolve-model", "infer-sampling-rate", "build-channels",
               "select-features", "classify"} => calls = <<>>
    /\ pc = "probabilities" => calls = <<"predict">>
    /\ pc = "done" =>
          calls = IF ModelOf(models, model_name).has_proba
                  THEN <<"predict", "predict_proba">> ELSE <<"predict">>
    /\ pc = "failed" => calls \in {<<>>, <<"predict">>, <<"predict", "predict_proba">>}
    /\ pc \in {"resolve-model", "infer-sampling-rate", "build-channels"} => built = NotBuilt
    /\ pc \in {"resolve-model", "infer-sampling-rate", "build-channels", "select-features"} =>
          features_df = EmptyFrame
    /\ Len(calls) >= 1 => features_df.rows = 1 /\ Len(features_df.cols) >= 1
    /\ pc = "idle" =>
          /\ model_name = "" /\ sampling_rate = DefaultSamplingRate /\ built = NotBuilt
          /\ features_df = EmptyFrame /\ prediction_num = NoValue /\ probabilities = <<>>
          /\ result = NoResult

C18_DeleteStatus ==
    pc = "response" =>
       /\ (arg.prediction_id \notin arg.table /\ arg.db_error = "none") => out.status = 404
       /\ out.status = 500 => arg.db_error # "none"
       /\ (arg.prediction_id \in arg.table /\ arg.db_error = "none") =>
             /\ out.status = 200
             /\ out.id = arg.prediction_id
             /\ out.table = arg.table \ {arg.prediction_id}

C19_HasKey(items, key) == \E j \in 1..Len(items) : items[j][1] = key
C19_Value(items, key) == items[CHOOSE j \in 1..Len(items) : items[j][1] = key][2]

\* the probability p is reported under the name key
C19_Reported(items, key, p) == C19_HasKey(items, key) /\ C19_Value(items, key) = p

\* C19: in a result of a classifier with predict_proba whose class-code list,
\* if it has one, is as long as its probability vector: the probability at
\* position j is reported under the taxonomy name of classes_[j], or without
\* classes_ under the taxonomy name of the code j - 1 (positions counted from
\* 1 here); and if the predicted class code is one of the model's class codes,
\* the predicted class name is a key of the mapping.
C19_ProbabilityPairing ==
    (/\ pc = "done"
     /\ ModelOf(models, model_name).has_proba
     /\ ModelOf(models, model_name).has_classes =>
           Len(ModelOf(models, model_name).classes) = Len(probabilities)) =>
       LET model == ModelOf(models, model_name)
           items == result.probabilities.items
       IN  /\ \A j \in 1..Len(probabilities) :
                C19_Reported(items,
                             IF model.has_classes THEN PredictionName(model.classes[j].val)
                             ELSE C7_Name(j - 1),
                             probabilities[j])
           /\ (\E j \in 1..Len(model.classes) : model.classes[j].val = prediction_num) =>
                 C19_HasKey(items, result.prediction)

\* C20: in every successful result prediction_class is an integer class code
\* and prediction is the taxonomy name of that code, whatever kind of value
\* the classifier's predict returned.
C20_PredictionClassIsInteger ==
    pc = "done" =>
       /\ result.prediction_class.t = "int"
       /\ result.prediction = C7_Name(result.prediction_class.i)

\* the messages of the exceptions the classification steps can raise: the
\* classifier's own, and int() of a class code that is no integer literal
C21_Messages(model) ==
    {"predict failed", "predict_proba failed"}
      \cup {IntConv(model.classes[j].val).err :
              j \in {k \in 1..Len(model.classes) : ~IntConv(model.classes[k].val).ok}}

\* the call ended at the classification: predict was invoked
C21_FailedClassifying == pc = "failed" /\ calls # <<>>

\* C21: a failure of the classification is contained.  When the classifier's
\* predict or predict_proba raises, or a class code cannot be converted to an
\* integer, predict returns the record whose only key is "error" and whose
\* value is the message of the exception; a complete result is returned only
\* when predict, predict_proba and the conversion of the class codes all
\* succeeded, so that no prediction is returned without its probabilities
\* after predict_proba failed.
C21_FailuresContained ==
    /\ [](C21_FailedClassifying =>
            /\ DOMAIN result = {"error"}
            /\ result.error \in C21_Messages(ModelOf(models, model_name))
            /\ calls = <<"predict">> => result.error = "predict failed")
    /\ [](pc = "done" =>
            \E m \in {ModelOf(models, model_name)} :
               IF m.has_proba
               THEN /\ calls = <<"predict", "predict_proba">>
                    /\ ProbDict(m, probabilities).ok
                    /\ result.probabilities = ProbDict(m, probabilities).val
               ELSE calls = <<"predict">> /\ result.probabilities = PyNone)
    /\ [][/\ pc = "classify" /\ pc' # "probabilities"
             => pc' = "failed" /\ result' = [error |-> "predict failed"]
          /\ pc = "probabilities" /\ pc' # "done"
             => pc' = "failed" /\ DOMAIN result' = {"error"}]_vars

\* predict returned, then the conversion of the class code 'imbalance' failed
C21_Witness ==
    /\ pc = "failed"
    /\ calls = <<"predict", "predict_proba">>
    /\ prediction_num # NoValue
    /\ result = [error |-> "invalid literal for int() with base 10: 'imbalance'"]

\* the time features of the non-empty signal at hand have been computed
C22_Computed == pc = "time" /\ Len(arg.arr.cols[1]) > 0

\* v is the quotient a / b of two finite numbers, b # 0
C22_IsQuotient(v, a, b) ==
    /\ v.k = "num"
    /\ v.s = a.s * b.s
    /\ v.q = QDiv(a.q, b.q)

\* the three guarded divisions: NaN exactly when the divisor is 0, and the
\* quotient otherwise
C22_Guarded ==
    C22_Computed =>
       /\ out.ok
       /\ \E f \in {out.val} :
          \E rms_val \in {Get(f, "rms")}, max_val \in {Get(f, "max")},
             mean_abs \in {Get(f, "mean_abs")} :
             /\ IsNaN(Get(f, "crest_factor")) <=> rms_val = Num(0, QInt(0))
             /\ IsNaN(Get(f, "shape_factor")) <=> mean_abs = Num(0, QInt(0))
             /\ IsNaN(Get(f, "impulse_factor")) <=> mean_abs = Num(0, QInt(0))
             /\ ~IsNaN(Get(f, "crest_factor")) /\ rms_val.k = "num"
                   => C22_IsQuotient(Get(f, "crest_factor"), max_val, rms_val)
             /\ ~IsNaN(Get(f, "shape_factor")) /\ rms_val.k = "num"
                   => C22_IsQuotient(Get(f, "shape_factor"), rms_val, mean_abs)
             /\ ~IsNaN(Get(f, "impulse_factor"))
                   => C22_IsQuotient(Get(f, "impulse_factor"), max_val, mean_abs)

C22_WitnessZero ==
    /\ C22_Computed
    /\ arg.arr.cols[1] = <<QInt(0), QInt(0)>>
    /\ IsNaN(Get(out.val, "crest_factor"))

\* the adjacent pairs of sig with one strictly positive and one strictly
\* negative sample
C23_TrueSignChanges(sig) ==
    Cardinality({i \in 1..(Len(sig) - 1) : QSign(sig[i]) * QSign(sig[i + 1]) < 0})

\* C23: the zero-crossing rate of a signal of N >= 1 samples is the number of
\* adjacent pairs with one strictly positive and one strictly negative sample,
\* divided by N (so that a signal touching zero without changing sign has the
\* rate 0), and lies between 0 and (N - 1) / N.
C23_ZeroCrossingRate ==
    pc = "time" /\ Len(arg.arr.cols[1]) >= 1 =>
       \E sig \in {arg.arr.cols[1]} :
       \E zcr \in {Get(out.val, "zero_crossing_rate")} :
          /\ zcr = NumQ(Q(C23_TrueSignChanges(sig), Len(sig)))
          /\ zcr.s >= 0
          /\ ~QLess(Q(Len(sig) - 1, Len(sig)), Q(SignChanges(sig), Len(sig)))

\* the values the generator can add to a sample
C24_NoiseValues == {NoiseAt(p) : p \in 0..(RngPeriod - 1)}

\* the channels of the call at hand have been built
C24_Built == pc = "select-features" /\ built.ok /\ data.kind = "samples"

\* C24: for a 1-D sample sequence of length n the channel assembly produces a
\* matrix of exactly n rows and 7 columns: column 0 is the primary signal
\* scaled by 0.1, without noise, and the columns 1..6 are the primary signal
\* plus noise, which is exactly the primary signal when it is constant (its
\* standard deviation is 0).  An input that is a matrix already is passed on
\* unchanged, whatever the number of its columns.
C24_ChannelAssembly ==
    C24_Built =>
       IF data.arr.ndim = 1
       THEN \E sig \in {data.arr.cols[1]}, m \in {built.val.arr} :
               /\ built.val.kind = "samples"
               /\ m.ndim = 2
               /\ m.nrows = Len(sig)
               /\ NCols(m) = 7
               /\ \A j \in 1..NCols(m) : Len(m.cols[j]) = Len(sig)
               /\ \A i \in 1..Len(sig) : m.cols[1][i] = QDiv(sig[i], QInt(10))
               /\ \A j \in 2..NCols(m) : \A i \in 1..Len(sig) :
                     QSub(m.cols[j][i], sig[i]) \in
                        IF \A k \in 1..Len(sig) : sig[k] = sig[1]
                        THEN {QInt(0)} ELSE C24_NoiseValues
       ELSE built.val = data

\* a varying 1-D sequence has been assembled, and its column 1 carries noise
C24_Witness ==
    /\ C24_Built
    /\ data.arr = Vec(Ramp(MaxLen, 0))
    /\ built.val.arr.cols[2] # Ramp(MaxLen, 0)

\* a matrix of more than 7 columns has been passed on
C24_WitnessPassThrough ==
    /\ C24_Built
    /\ data.arr.ndim = 2
    /\ NCols(data.arr) > 7
    /\ built.val.arr = data.arr

\* the 0-based column a single-axis strategy is to read in a matrix of k columns
C25_Column(axis_type, k) ==
    Min(CASE axis_type = "axial" -> 1 [] axis_type = "radial" -> 2
          [] axis_type = "tangential" -> 3, k - 1)

\* the values of the frame df are the time and then the frequency features of sig
C25_FeaturesOf(df, sig, rate) ==
    /\ Len(df.cols) = 20
    /\ \A i \in 1..14 : df.cols[i][2] = compute_basic_time_features(sig).val[i][2]
    /\ \A i \in 1..6 : df.cols[14 + i][2] = compute_frequency_features(sig, rate).val[i][2]

\* a single-axis strategy has been applied to an array it can read
C25_Applied ==
    /\ pc \in {"axial", "radial", "tangential"}
    /\ arg.arr.nrows >= 1
    /\ arg.sampling_rate > 0
    /\ arg.arr.ndim = 2 => NCols(arg.arr) >= 1

\* C25: a single-axis strategy reads, of a matrix of k >= 1 columns, the column
\* min(a, k - 1) with a = 1 for axial, 2 for radial and 3 for tangential: an
\* index in range, and never the tachometer column 0 when k >= 2; of a 1-D input
\* it reads the input itself.  Its 20 feature names carry no suffix of an axis
\* or a channel and are the same for the three axis types.
C25_SingleAxisColumn ==
    C25_Applied =>
       /\ out.ok
       /\ Keys(out.val.cols) = C6_StatNames
       /\ IF arg.arr.ndim = 1
          THEN C25_FeaturesOf(out.val, arg.arr.cols[1], arg.sampling_rate)
          ELSE \E c \in {C25_Column(pc, NCols(arg.arr))} :
                  /\ c \in 0..(NCols(arg.arr) - 1)
                  /\ NCols(arg.arr) >= 2 => c # 0
                  /\ C25_FeaturesOf(out.val, arg.arr.cols[c + 1], arg.sampling_rate)

\* the tangential strategy on a matrix of two columns: the index 3 is clamped
\* to the column 1
C25_Witness ==
    /\ pc = "tangential"
    /\ arg.arr.ndim = 2 /\ NCols(arg.arr) = 2 /\ arg.arr.nrows = MaxLen
    /\ arg.sampling_rate > 0
    /\ out.ok
    /\ Get(out.val.cols, "time_mean") = NumQ(Mean(arg.arr.cols[2]))

\* the 20 features of axis i (0-based) in the frame df are those of sig, under
\* the names of that axis
C26_BlockOf(df, i, sig, rate) ==
    /\ \A j \in 1..20 :
          df.cols[20 * i + j][1] = C6_StatNames[j] \o "_" \o axes[i + 1]
    /\ \A j \in 1..14 :
          df.cols[20 * i + j][2] = compute_basic_time_features(sig).val[j][2]
    /\ \A j \in 1..6 :
          df.cols[20 * i + 14 + j][2] = compute_frequency_features(sig, rate).val[j][2]

\* the n values the generator yields from the position p on, when the standard
\* deviation of sig is positive, and zeros when it is 0
C26_Noise(sig, p) ==
    [j \in 1..Len(sig) |->
       IF \E k \in 1..Len(sig) : sig[k] # sig[1]
       THEN NoiseAt((p + j - 1) % RngPeriod) ELSE QInt(0)]

\* the 3-axis strategy has been applied to an array it can read
C26_Applied ==
    /\ pc = "3axis"
    /\ arg.arr.nrows >= 1
    /\ arg.sampling_rate > 0
    /\ arg.arr.ndim = 2 => NCols(arg.arr) >= 1

\* C26: for a 1-D input the 3-axis strategy takes the input unmodified as the
\* axial signal and the input plus drawn noise as the radial and as the
\* tangential signal; for a matrix of k >= 1 columns the axis i (0 axial,
\* 1 radial, 2 tangential) reads the column min(i + 1, k - 1), so that with
\* k <= 3 two or more axes read one column and with k = 1 all three read the
\* tachometer column.
C26_ThreeAxisSignals ==
    C26_Applied =>
       /\ out.ok
       /\ Len(out.val.cols) = 60
       /\ IF arg.arr.ndim = 1
          THEN \E sig \in {arg.arr.cols[1]} :
                  /\ C26_BlockOf(out.val, 0, sig, arg.sampling_rate)
                  /\ C26_BlockOf(out.val, 1, AddNoise(sig, C26_Noise(sig, rng0)),
                                 arg.sampling_rate)
                  /\ C26_BlockOf(out.val, 2,
                                 AddNoise(sig, C26_Noise(sig, rng0 + Len(sig))),
                                 arg.sampling_rate)
                  /\ rng = (rng0 + 2 * Len(sig)) % RngPeriod
          ELSE \E k \in {NCols(arg.arr)} :
                  /\ \A i \in 0..2 :
                        C26_BlockOf(out.val, i, arg.arr.cols[Min(i + 1, k - 1) + 1],
                                    arg.sampling_rate)
                  /\ k <= 3 => Min(2, k - 1) = Min(3, k - 1)
                  /\ k = 1 => \A i \in 0..2 : Min(i + 1, k - 1) = 0
                  /\ rng = rng0

\* the 3-axis strategy on a matrix of three columns: the radial and the
\* tangential features are both those of the column 2
C26_Witness ==
    /\ C26_Applied
    /\ arg.arr.ndim = 2 /\ NCols(arg.arr) = 3 /\ arg.arr.nrows = MaxLen
    /\ Get(out.val.cols, "time_mean_radial") = Get(out.val.cols, "time_mean_tangential")
    /\ Get(out.val.cols, "time_mean_axial") # Get(out.val.cols, "time_mean_radial")

\* the 3-axis strategy on a varying 1-D signal: the radial signal carries noise
C26_WitnessNoise ==
    /\ C26_Applied
    /\ arg.arr.ndim = 1
    /\ Get(out.val.cols, "time_energy_axial") # Get(out.val.cols, "time_energy_radial")

\* the request is for the last minute or for a custom interval shorter than
\* an hour
C27_ShortPeriod ==
    \/ arg.period_type = "last_minute"
    \/ /\ arg.period_type = "custom"
       /\ arg.interval.given
       /\ arg.interval.v > 0 /\ arg.interval.v < 3600

\* C27: for the period type "last_minute", and for a custom period shorter
\* than an hour, get_recordings_by_period asks the cloud client for a strictly
\* positive look-back of at least one minute, never for 0 hours.
C27_LookBackPositive ==
    pc = "period-response" /\ C27_ShortPeriod =>
       /\ out.hours_back > 0
       /\ out.window >= 60

\* the call at hand is on a 1-D sample sequence
C28_SingleChannel == data.kind = "samples" /\ data.arr.ndim = 1

\* the sequence varies: its standard deviation is positive
C28_Varying == \E k \in 1..Len(data.arr.cols[1]) : data.arr.cols[1][k] # data.arr.cols[1][1]

\* the features of the call have been selected from a 1-D sample sequence
C28_Selected == pc = "classify" /\ C28_SingleChannel

\* the suffix of the axial features under the strategy st, "none" if it has none
C28_AxialSuffix(st) ==
    CASE st = "3axis" -> "_axial"
      [] st = "axial" -> ""
      [] st = "full" -> "_underhang-axial"
      [] OTHER -> "none"

\* C28: on the path through predict a 1-D sample sequence is always expanded
\* to the synthetic matrix of 7 columns before the features are selected, so
\* that the strategies never see a 1-D array; the axial features of a
\* single-channel input are those of the synthesized column 1 (the input plus
\* noise), not those of the input; and predict on a varying single-channel
\* input depends on the position of the random generator under every strategy,
\* the single-axis ones included.
C28_AlwaysExpanded ==
    /\ (pc = "select-features" /\ built.ok /\ built.val.kind = "samples"
          => built.val.arr.ndim = 2)
    /\ (pc = "select-features" /\ built.ok /\ C28_SingleChannel
          => NCols(built.val.arr) = 7 /\ built.val.arr.nrows = data.arr.nrows)
    /\ (C28_Selected =>
          \E sfx \in {C28_AxialSuffix(Strategy(model_name))} :
             sfx # "none" =>
                /\ Get(features_df.cols, "time_mean" \o sfx)
                      = NumQ(Mean(built.val.arr.cols[2]))
                /\ Get(features_df.cols, "time_energy" \o sfx)
                      = energy(built.val.arr.cols[2])
                /\ Get(features_df.cols, "time_skewness" \o sfx)
                      = Lib("skew", built.val.arr.cols[2])
                /\ C28_Varying => built.val.arr.cols[2] # data.arr.cols[1])
    /\ (C28_Selected /\ C28_Varying =>
          \E r \in 0..(RngPeriod - 1) :
             preprocess_data(data, model_name, sampling_rate, r).df # features_df)

\* the features of an axial model on a varying 1-D sequence: those of the
\* noisy column 1
C28_Witness ==
    /\ C28_Selected
    /\ C28_Varying
    /\ Strategy(model_name) = "axial"
    /\ Get(features_df.cols, "time_mean") # NumQ(Mean(data.arr.cols[1]))

\* the recordings of the request that have an id, in order
C29_WithId == SelectSeq(arg.recordings, LAMBDA r : r.id # "")

\* the handler has answered a request for a device with recordings
C29_Answered ==
    /\ pc = "period-predict-response"
    /\ arg.device_id # ""
    /\ arg.recordings # <<>>

\* the last recording of the request that carries the id
C29_LastWith(id) ==
    C29_WithId[CHOOSE i \in 1..Len(C29_WithId) :
                  /\ C29_WithId[i].id = id
                  /\ \A j \in (i + 1)..Len(C29_WithId) : C29_WithId[j].id # id]

\* C29: predict_period_data counts a recording as failed, and saves it with
\* success = False, only when fetching its data or predicting raises; a
\* prediction result that carries the key error is counted in
\* successful_predictions and saved with success = True, the class "unknown"
\* and the confidence 0.  In every response successful_predictions +
\* failed_predictions is the number of the recordings that have an id, which is
\* at most total_recordings.
C29_ErrorResultsCountAsSuccess ==
    C29_Answered =>
       /\ out.status = 200
       /\ Len(out.predictions) = Len(C29_WithId)
       /\ \A i \in 1..Len(C29_WithId) :
             /\ out.predictions[i].recording_id = C29_WithId[i].id
             /\ out.predictions[i].success <=> C29_WithId[i].outcome.ok
             /\ C29_WithId[i].outcome.ok =>
                   out.predictions[i].prediction = C29_WithId[i].outcome.val
       /\ out.summary.failed_predictions =
             Cardinality({i \in 1..Len(C29_WithId) : ~C29_WithId[i].outcome.ok})
       /\ out.summary.successful_predictions =
             Cardinality({i \in 1..Len(C29_WithId) : C29_WithId[i].outcome.ok})
       /\ out.summary.successful_predictions + out.summary.failed_predictions
             = Len(C29_WithId)
       /\ Len(C29_WithId) <= out.summary.total_recordings
       /\ out.summary.total_recordings = Len(arg.recordings)
       /\ \A row \in predictions :
             \E r \in {C29_LastWith(row.recording_id)} :
                /\ row.success <=> r.outcome.ok
                /\ r.outcome.ok /\ "error" \in DOMAIN r.outcome.val =>
                      /\ row.success
                      /\ row.predicted_class = "unknown"
                      /\ row.confidence = QInt(0)
                /\ r.outcome.ok /\ "prediction" \in DOMAIN r.outcome.val =>
                      row.predicted_class = r.outcome.val.prediction
       /\ arg.db_error = "none" =>
             {row.recording_id : row \in predictions}
                = {C29_WithId[i].id : i \in 1..Len(C29_WithId)}

\* a request of two recordings, one without id and one whose prediction is the
\* record of an error: one successful prediction, saved as the class "unknown"
C29_Witness ==
    /\ C29_Answered
    /\ Len(arg.recordings) = 2
    /\ out.summary.successful_predictions = 1
    /\ out.summary.failed_predictions = 0
    /\ "error" \in DOMAIN out.predictions[1].prediction
    /\ \E row \in predictions :
          row.success /\ row.predicted_class = "unknown" /\ row.confidence = QInt(0)


(***************************************************************************)
(* C30.  After any sequence of save_prediction, delete_prediction and      *)
(* cleanup_old_predictions calls the table predictions holds at most one   *)
(* row per (device_id, recording_id, model_name, channel).  A save that    *)
(* returns True leaves exactly one row under its key, the new one: it has  *)
(* a fresh id, the columns derived from the result just saved and the      *)
(* present created_at, and the rows of the other keys are untouched.  A    *)
(* save that returns False leaves the table and the AUTOINCREMENT counter  *)
(* as they were.                                                           *)
(***************************************************************************)
C30_OneRowPerKey ==
    \A r1, r2 \in predictions : UniqueKey(r1) = UniqueKey(r2) => r1 = r2

\* the step is a call of save_prediction (Tick leaves arg alone but moves now)
C30_IsSave ==
    /\ "op" \in DOMAIN arg'
    /\ arg'.op = "save_prediction"
    /\ now' = now
    /\ <<arg', out', predictions', sqlite_sequence'>> # <<arg, out, predictions, sqlite_sequence>>

C30_Replaced ==
    LET key == UniqueKey(arg'.key)
        rows == {r \in predictions' : UniqueKey(r) = key}
        d == DerivedColumns(arg'.call.prediction_result, arg'.call.success)
    IN  /\ Cardinality(rows) = 1
        /\ \A r \in rows :
              /\ r.id = sqlite_sequence'
              /\ r.id \notin {x.id : x \in predictions}
              /\ r.predicted_class = d.predicted_class
              /\ r.confidence = d.confidence
              /\ r.success = arg'.call.success
              /\ r.error_message = arg'.call.error_message
              /\ r.created_at = now
        /\ {r \in predictions' : UniqueKey(r) # key} = {r \in predictions : UniqueKey(r) # key}

C30_SaveStep ==
    C30_IsSave =>
        IF out'.returned THEN C30_Replaced
        ELSE predictions' = predictions /\ sqlite_sequence' = sqlite_sequence

C30_UniqueKeyKept == [] C30_OneRowPerKey /\ [][C30_SaveStep]_vars

\* a key saved a second time with another result: the table holds the three
\* keys, the row of the key just saved is the newest and says "error", and
\* more rows have been inserted than the table holds
C30_Witness ==
    /\ "op" \in DOMAIN arg
    /\ arg.op = "save_prediction"
    /\ out.returned
    /\ ~arg.call.success
    /\ Cardinality(predictions) = Cardinality(StoreKeys)
    /\ sqlite_sequence = MaxId
    /\ \E r \in predictions :
          /\ UniqueKey(r) = UniqueKey(arg.key)
          /\ r.id = sqlite_sequence
          /\ r.predicted_class = "error"

\* a save that failed while the table held rows
C30_WitnessFailed ==
    /\ "op" \in DOMAIN arg
    /\ arg.op = "save_prediction"
    /\ ~out.returned
    /\ predictions # {}

=============================================================================
